---- MODULE Spec2Model ----
(***************************************************************************)
(* Model of the signal-driven order engine of crypto_trader: the webhook   *)
(* handler (src/unnamed/part_002), the OKX client and the SQLite store     *)
(* (src/unnamed/part_006).                                                 *)
(*                                                                         *)
(* float64 quantities are float64 values: a sign, an odd mantissa and a    *)
(* binary exponent, every operation rounded as the hardware rounds it.     *)
(* The numbers of the exchange's JSON are strings, read by ParseFloat and  *)
(* written by FormatFixed.                                                 *)
(* The exchange is the environment: every answer it gives is drawn from a  *)
(* small set of responses.                                                 *)
(***************************************************************************)
EXTENDS Integers, Sequences, FiniteSets, TLC

(***************************************************************************)
(* Bounds of the model.                                                    *)
(***************************************************************************)
\* number of webhook requests the environment sends
MaxRequests == 2

(***************************************************************************)
(* Natural numbers of any size: a sequence of limbs of 15 bits, the lowest *)
(* first, with no zero limb at the high end; <<>> is 0.  A loop over the   *)
(* limbs is a recursive function that halves its range, so that its        *)
(* arguments are values and its depth stays small.                         *)
(***************************************************************************)
Base == 2 ^ 15
LimbBits == 3 * 5
Limbs == Seq(Int)

\* the one element of a singleton set
Only(S) == CHOOSE x \in S : TRUE

Max2(a, b) == IF a >= b THEN a ELSE b

SetMax(S) == CHOOSE x \in S : \A y \in S : y <= x
SetMin(S) == CHOOSE x \in S : \A y \in S : x <= y

Pow2[k \in Int] == IF k <= 0 THEN 1 ELSE 2 ^ k

\* the number of bits of a small natural number
IntBitLen[n \in Int] ==
    IF n <= 0 THEN 0
    ELSE IF n >= 2 ^ 4 THEN 4 + IntBitLen[n \div 2 ^ 4]
    ELSE IF n >= 2 ^ 3 THEN 4
    ELSE IF n >= 2 ^ 2 THEN 3
    ELSE IF n >= 2 THEN 2
    ELSE 1

\* the number of zero bits at the low end of a small positive number
IntTz[n \in Int] == IF n % 2 = 1 THEN 0 ELSE 1 + IntTz[n \div 2]

\* the i-th limb, 0 past the high end
Limb(a, i) == IF i <= Len(a) THEN a[i] ELSE 0

\* a without the zero limbs at its high end
BTrim[a \in Limbs] ==
    IF a = <<>> \/ a[Len(a)] # 0 THEN a
    ELSE Only({IF S = {} THEN <<>> ELSE SubSeq(a, 1, SetMax(S)) :
                 S \in {{i \in DOMAIN a : a[i] # 0}}})

BFromInt[n \in Int] == IF n <= 0 THEN <<>> ELSE <<n % Base>> \o BFromInt[n \div Base]

BZeros[k \in Int] == [i \in 1 .. k |-> 0]

BBitLen[a \in Limbs] ==
    IF a = <<>> THEN 0 ELSE LimbBits * (Len(a) - 1) + IntBitLen[a[Len(a)]]

BOdd(a) == a # <<>> /\ a[1] % 2 = 1

\* -1, 0 or 1 as a is below, equal to or above b
BCmp[a \in Limbs, b \in Limbs] ==
    IF Len(a) < Len(b) THEN -1
    ELSE IF Len(a) > Len(b) THEN 1
    ELSE IF a = b THEN 0
    ELSE IF a[Len(a)] # b[Len(a)] THEN (IF a[Len(a)] < b[Len(a)] THEN -1 ELSE 1)
    ELSE Only({IF a[i] < b[i] THEN -1 ELSE 1 :
                 i \in {SetMax({j \in DOMAIN a : a[j] # b[j]})}})

\* the longest run of limbs a loop goes through one by one; a longer range is
\* halved
Run == 2 * 2 * 2

\* the limbs lo .. hi of a + b + c, followed by the carry out of them
BAddR[a \in Limbs, b \in Limbs, lo \in Int, hi \in Int, c \in Int] ==
    IF lo > hi THEN <<c>>
    ELSE IF hi - lo < Run
    THEN <<(Limb(a, lo) + Limb(b, lo) + c) % Base>>
         \o BAddR[a, b, lo + 1, hi, (Limb(a, lo) + Limb(b, lo) + c) \div Base]
    ELSE Only({SubSeq(l, 1, Len(l) - 1)
               \o BAddR[a, b, (lo + hi) \div 2 + 1, hi, l[Len(l)]] :
                 l \in {BAddR[a, b, lo, (lo + hi) \div 2, c]}})

BAdd[a \in Limbs, b \in Limbs] ==
    IF a = <<>> THEN b
    ELSE IF b = <<>> THEN a
    ELSE BTrim[BAddR[a, b, 1, Max2(Len(a), Len(b)), 0]]

\* the limbs lo .. hi of a - b - c, followed by the borrow out of them
BSubR[a \in Limbs, b \in Limbs, lo \in Int, hi \in Int, c \in Int] ==
    IF lo > hi THEN <<c>>
    ELSE IF hi - lo < Run
    THEN <<(a[lo] - Limb(b, lo) - c + Base) % Base>>
         \o BSubR[a, b, lo + 1, hi, IF a[lo] - Limb(b, lo) - c < 0 THEN 1 ELSE 0]
    ELSE Only({SubSeq(l, 1, Len(l) - 1)
               \o BSubR[a, b, (lo + hi) \div 2 + 1, hi, l[Len(l)]] :
                 l \in {BSubR[a, b, lo, (lo + hi) \div 2, c]}})

\* a - b for a >= b
BSub[a \in Limbs, b \in Limbs] ==
    IF b = <<>> THEN a ELSE BTrim[BSubR[a, b, 1, Len(a), 0]]

\* the limbs lo .. hi of a * k + c, followed by the carry out of them
BMulSmallR[a \in Limbs, k \in Int, lo \in Int, hi \in Int, c \in Int] ==
    IF lo > hi THEN <<c>>
    ELSE IF hi - lo < Run
    THEN <<(a[lo] * k + c) % Base>>
         \o BMulSmallR[a, k, lo + 1, hi, (a[lo] * k + c) \div Base]
    ELSE Only({SubSeq(l, 1, Len(l) - 1)
               \o BMulSmallR[a, k, (lo + hi) \div 2 + 1, hi, l[Len(l)]] :
                 l \in {BMulSmallR[a, k, lo, (lo + hi) \div 2, c]}})

\* a * k for 0 <= k < Base
BMulSmall[a \in Limbs, k \in Int] ==
    IF k = 0 \/ a = <<>> THEN <<>>
    ELSE IF k = 1 THEN a
    ELSE BTrim[BMulSmallR[a, k, 1, Len(a), 0]]

\* a times the number the limbs lo .. hi of b make
BMulR[a \in Limbs, b \in Limbs, lo \in Int, hi \in Int] ==
    IF lo = hi THEN BMulSmall[a, b[lo]]
    ELSE Only({IF h = <<>> THEN BMulR[a, b, lo, (lo + hi) \div 2]
               ELSE BAdd[BMulR[a, b, lo, (lo + hi) \div 2],
                         BZeros[(lo + hi) \div 2 + 1 - lo] \o h] :
                 h \in {BMulR[a, b, (lo + hi) \div 2 + 1, hi]}})

BMul[a \in Limbs, b \in Limbs] ==
    IF a = <<>> \/ b = <<>> THEN <<>>
    ELSE IF Len(a) < Len(b) THEN BMulR[b, a, 1, Len(a)]
    ELSE BMulR[a, b, 1, Len(b)]

\* the limbs hi down to lo of a divided by k, r the remainder carried in: the
\* remainder left, followed by the limbs of the quotient
BDivSmallR[a \in Limbs, k \in Int, lo \in Int, hi \in Int, r \in Int] ==
    IF lo > hi THEN <<r>>
    ELSE IF hi - lo < Run
    THEN BDivSmallR[a, k, lo, hi - 1, (r * Base + a[hi]) % k]
         \o <<(r * Base + a[hi]) \div k>>
    ELSE Only({BDivSmallR[a, k, lo, (lo + hi) \div 2, h[1]] \o Tail(h) :
                 h \in {BDivSmallR[a, k, (lo + hi) \div 2 + 1, hi, r]}})

\* [q, r]: a = q * k + r for 0 < k < Base, r a small number
BDivSmall[a \in Limbs, k \in Int] ==
    IF k = 1 THEN [q |-> a, r |-> 0]
    ELSE Only({[q |-> BTrim[Tail(d)], r |-> d[1]] : d \in {BDivSmallR[a, k, 1, Len(a), 0]}})

\* a * 2^n
BShl[a \in Limbs, n \in Int] ==
    IF a = <<>> \/ n <= 0 THEN a
    ELSE BZeros[n \div LimbBits] \o BMulSmall[a, Pow2[n % LimbBits]]

\* a \div 2^n
BShr[a \in Limbs, n \in Int] ==
    IF n <= 0 THEN a
    ELSE IF n \div LimbBits >= Len(a) THEN <<>>
    ELSE BDivSmall[SubSeq(a, n \div LimbBits + 1, Len(a)), Pow2[n % LimbBits]].q

\* a % 2^n
BLow[a \in Limbs, n \in Int] ==
    IF n <= 0 THEN <<>>
    ELSE IF n \div LimbBits >= Len(a) THEN a
    ELSE BTrim[SubSeq(a, 1, n \div LimbBits)
               \o <<a[n \div LimbBits + 1] % Pow2[n % LimbBits]>>]

\* the number of zero bits at the low end of a, a not 0
BTz[a \in Limbs] ==
    Only({LimbBits * (z - 1) + IntTz[a[z]] :
            z \in {SetMin({i \in DOMAIN a : a[i] # 0})}})

\* the largest digit d <= est with b * d <= r, and the product p = b * d
BDigit[b \in Limbs, r \in Limbs, est \in Int] ==
    Only({IF BCmp[p, r] > 0 THEN BDigit[b, r, est - 1] ELSE [d |-> est, p |-> p] :
            p \in {BMulSmall[b, est]}})

\* one step of the long division by b: the remainder r carried in takes the
\* limb x at its low end and gives up a digit of the quotient
BDivStep[b \in Limbs, r \in Limbs, x \in Int] ==
    Only({Only({[q |-> <<g.d>>, r |-> BSub[r1, g.p]] :
                  g \in {BDigit[b, r1,
                           IF Len(r1) < Len(b) THEN 0
                           ELSE Only({IF e >= Base THEN Base - 1 ELSE e :
                                  e \in {(Limb(r1, Len(b) + 1) * Base + r1[Len(b)])
                                         \div b[Len(b)]}})]}}) :
            r1 \in {BTrim[<<x>> \o r]}})

\* long division by b, whose top limb has its top bit set: the limbs hi down
\* to lo of a, r the remainder carried in
BDivR[a \in Limbs, b \in Limbs, lo \in Int, hi \in Int, r \in Limbs] ==
    IF lo = hi THEN BDivStep[b, r, a[lo]]
    ELSE Only({Only({[q |-> l.q \o h.q, r |-> l.r] :
                       l \in {BDivR[a, b, lo, (lo + hi) \div 2, h.r]}}) :
                 h \in {BDivR[a, b, (lo + hi) \div 2 + 1, hi, r]}})

\* [q, r]: a = q * b + r with r < b, for b not 0; the division starts with
\* the limbs of a that make a number below the b it divides by
BDivMod[a \in Limbs, b \in Limbs] ==
    IF Len(b) = 1
    THEN Only({[q |-> d.q, r |-> BFromInt[d.r]] : d \in {BDivSmall[a, b[1]]}})
    ELSE IF BCmp[a, b] < 0 THEN [q |-> <<>>, r |-> a]
    ELSE Only({Only({Only({[q |-> BTrim[d.q], r |-> BShr[d.r, s]] :
                             d \in {BDivR[a1, BShl[b, s], 1, Len(a1) - Len(b) + 1,
                                          SubSeq(a1, Len(a1) - Len(b) + 2, Len(a1))]}}) :
                       a1 \in {BShl[a, s]}}) :
                 s \in {LimbBits - IntBitLen[b[Len(b)]]}})

(***************************************************************************)
(* float64: [k, s, m, e] stands for (-1)^s * m * 2^e with m odd, or for 0  *)
(* (m = <<>>, e = 0), an infinity or NaN.  Every operation computes the    *)
(* exact result and rounds it once, to the nearest float64, ties to even.  *)
(***************************************************************************)
F64 == [k : {"num", "inf", "nan"}, s : {0, 1}, m : Limbs, e : Int]
Num(s, m, e) == [k |-> "num", s |-> s, m |-> m, e |-> e]
FZero(s) == Num(s, <<>>, 0)
FInf(s) == [k |-> "inf", s |-> s, m |-> <<>>, e |-> 0]
NaN == [k |-> "nan", s |-> 0, m |-> <<>>, e |-> 0]

\* m * 2^e for a mantissa of at most 53 bits: m is made odd; a magnitude of
\* 2^1024 or more is infinite
Pack[s \in {0, 1}, m \in Limbs, e \in Int] ==
    IF m = <<>> THEN FZero(s)
    ELSE IF BBitLen[m] + e > 1024 THEN FInf(s)
    ELSE Only({Num(s, BShr[m, z], e + z) : z \in {BTz[m]}})

\* m * 2^e, plus a fraction of 2^e when sticky, with the low sh bits of m
\* rounded away
RoundBy[s \in {0, 1}, m \in Limbs, e \in Int, sticky \in BOOLEAN, sh \in Int] ==
    IF sh <= 0 THEN Pack[s, m, e]
    ELSE IF sh > BBitLen[m] + 1 THEN FZero(s)
    ELSE Only({Pack[s, IF c > 0 \/ (c = 0 /\ (sticky \/ BOdd(q)))
                       THEN BAdd[q, <<1>>] ELSE q, e + sh] :
                 q \in {BShr[m, sh]},
                 c \in {BCmp[BLow[m, sh], BShl[<<1>>, sh - 1]]}})

\* the float64 nearest to m * 2^e: 53 bits of mantissa, and no bit below 2^-1074
Round[s \in {0, 1}, m \in Limbs, e \in Int, sticky \in BOOLEAN] ==
    IF m = <<>> THEN FZero(s)
    ELSE RoundBy[s, m, e, sticky, Max2(BBitLen[m] - 53, (-1074) - e)]

\* float64(n) of an integer
FromInt[n \in Int] == Round[IF n < 0 THEN 1 ELSE 0, BFromInt[IF n < 0 THEN -n ELSE n], 0, FALSE]

\* the sum of two finite numbers other than 0, before it is rounded, for
\* mantissas of at most 106 bits (an exact product):
\* the exact sum [s, m, e, sticky]: the operands far apart, the sum is the
\* larger one with the smaller as a fraction of its last place, 60 bits down
FAddNum[x \in F64, y \in F64] ==
    IF x.e - y.e > 200 \/ y.e - x.e > 200
    THEN Only({[s |-> hi.s, e |-> hi.e - 60, sticky |-> TRUE,
                m |-> IF x.s = y.s THEN BShl[hi.m, 60] ELSE BSub[BShl[hi.m, 60], <<1>>]] :
                 hi \in {IF x.e > y.e THEN x ELSE y}})
    ELSE Only({IF x.s = y.s THEN [s |-> x.s, m |-> BAdd[a, b], e |-> e, sticky |-> FALSE]
               ELSE IF c >= 0 THEN [s |-> IF c = 0 THEN 0 ELSE x.s, m |-> BSub[a, b],
                                    e |-> e, sticky |-> FALSE]
               ELSE [s |-> y.s, m |-> BSub[b, a], e |-> e, sticky |-> FALSE] :
                 e \in {IF x.e < y.e THEN x.e ELSE y.e},
                 a \in {BShl[x.m, x.e - y.e]},
                 b \in {BShl[y.m, y.e - x.e]},
                 c \in {BCmp[BShl[x.m, x.e - y.e], BShl[y.m, y.e - x.e]]}})

FAdd[x \in F64, y \in F64] ==
    IF x.k = "nan" \/ y.k = "nan" THEN NaN
    ELSE IF x.k = "inf" THEN (IF y.k = "inf" /\ y.s # x.s THEN NaN ELSE x)
    ELSE IF y.k = "inf" THEN y
    ELSE IF x.m = <<>>
    THEN (IF y.m = <<>> THEN FZero(IF x.s = 1 /\ y.s = 1 THEN 1 ELSE 0) ELSE y)
    ELSE IF y.m = <<>> THEN x
    ELSE Only({Round[t.s, t.m, t.e, t.sticky] : t \in {FAddNum[x, y]}})

FNeg(x) == IF x.k = "nan" THEN x ELSE [x EXCEPT !.s = 1 - @]

FMul[x \in F64, y \in F64] ==
    IF x.k = "nan" \/ y.k = "nan" THEN NaN
    ELSE IF x.k = "inf" \/ y.k = "inf"
    THEN (IF (x.k = "num" /\ x.m = <<>>) \/ (y.k = "num" /\ y.m = <<>>) THEN NaN
          ELSE FInf((x.s + y.s) % 2))
    ELSE Round[(x.s + y.s) % 2, BMul[x.m, y.m], x.e + y.e, FALSE]

\* x * y + z computed exactly and rounded once: the fused multiply-add
FFma[x \in F64, y \in F64, z \in F64] ==
    IF x.k = "nan" \/ y.k = "nan" \/ z.k = "nan" THEN NaN
    ELSE IF x.k = "inf" \/ y.k = "inf"
    THEN (IF (x.k = "num" /\ x.m = <<>>) \/ (y.k = "num" /\ y.m = <<>>) THEN NaN
          ELSE IF z.k = "inf" /\ z.s # (x.s + y.s) % 2 THEN NaN
          ELSE FInf((x.s + y.s) % 2))
    ELSE IF z.k = "inf" THEN z
    ELSE IF x.m = <<>> \/ y.m = <<>>
    THEN (IF z.m = <<>> THEN FZero(IF (x.s + y.s) % 2 = 1 /\ z.s = 1 THEN 1 ELSE 0) ELSE z)
    ELSE IF z.m = <<>> THEN Round[(x.s + y.s) % 2, BMul[x.m, y.m], x.e + y.e, FALSE]
    ELSE Only({Round[t.s, t.m, t.e, t.sticky] :
                 t \in {FAddNum[Num((x.s + y.s) % 2, BMul[x.m, y.m], x.e + y.e), z]}})

\* the quotient of two finite numbers other than 0: 56 bits of it or more
\* are computed, what is left of the division is the sticky bit
FDivNum[x \in F64, y \in F64, k \in Int] ==
    Only({Round[(x.s + y.s) % 2, d.q, x.e - y.e - k, d.r # <<>>] :
            d \in {BDivMod[BShl[x.m, k], y.m]}})

FDiv[x \in F64, y \in F64] ==
    IF x.k = "nan" \/ y.k = "nan" THEN NaN
    ELSE IF x.k = "inf" THEN (IF y.k = "inf" THEN NaN ELSE FInf((x.s + y.s) % 2))
    ELSE IF y.k = "inf" THEN FZero((x.s + y.s) % 2)
    ELSE IF y.m = <<>> THEN (IF x.m = <<>> THEN NaN ELSE FInf((x.s + y.s) % 2))
    ELSE IF x.m = <<>> THEN FZero((x.s + y.s) % 2)
    ELSE IF y.m = <<1>> THEN Round[(x.s + y.s) % 2, x.m, x.e - y.e, FALSE]
    ELSE FDivNum[x, y, Max2(0, 56 + BBitLen[y.m] - BBitLen[x.m])]

\* the magnitudes of two numbers other than 0 and NaN compared: -1, 0 or 1
FMagCmp[x \in F64, y \in F64] ==
    IF x.k = "inf" THEN (IF y.k = "inf" THEN 0 ELSE 1)
    ELSE IF y.k = "inf" THEN -1
    ELSE IF BBitLen[x.m] + x.e < BBitLen[y.m] + y.e THEN -1
    ELSE IF BBitLen[x.m] + x.e > BBitLen[y.m] + y.e THEN 1
    ELSE BCmp[BShl[x.m, x.e - y.e], BShl[y.m, y.e - x.e]]

\* -1, 0 or 1 as the number is below, equal to or above 0
FSign(x) == IF x.k = "num" /\ x.m = <<>> THEN 0 ELSE IF x.s = 1 THEN -1 ELSE 1

\* two numbers other than NaN compared: -1, 0 or 1
FCmp[x \in F64, y \in F64] ==
    IF FSign(x) < FSign(y) THEN -1
    ELSE IF FSign(x) > FSign(y) THEN 1
    ELSE IF FSign(x) = 0 THEN 0
    ELSE FSign(x) * FMagCmp[x, y]

\* the platforms the program is built for: their conversions float64 -> int
\* differ on a value an int cannot hold, and the compiler for arm64 fuses a
\* multiplication and the addition of its product into one operation
IntConversions == {"amd64", "arm64"}

\* z + x * y as the platform computes it: rounded twice, or fused
MulAdd(z, x, y, conv) ==
    IF conv = "arm64" THEN FFma[x, y, z] ELSE FAdd[z, FMul[x, y]]

\* float64(int(x)): truncation toward zero; for NaN, an infinity or a magnitude
\* of 2^63 or more the result depends on the platform
FTrunc[x \in F64, conv \in IntConversions] ==
    IF x.k = "num" /\ (BBitLen[x.m] + x.e <= 63 \/ x = Num(1, <<1>>, 63))
    THEN IF x.m = <<>> THEN FZero(0)
         ELSE IF x.e >= 0 THEN x
         ELSE IF BShr[x.m, -x.e] = <<>> THEN FZero(0)
         ELSE Pack[x.s, BShr[x.m, -x.e], 0]
    ELSE IF conv = "amd64" THEN Num(1, <<1>>, 63)
    ELSE IF x.k = "nan" THEN FZero(0)
    ELSE Num(x.s, <<1>>, 63)

\* math.Mod(x, 1)
FMod1[x \in F64] ==
    IF x.k # "num" THEN NaN
    ELSE IF x.m = <<>> THEN x
    ELSE IF x.e >= 0 THEN FZero(x.s)
    ELSE Pack[x.s, BLow[x.m, -x.e], x.e]

\* the arithmetic of the program's float64 values
Rat(n, d) == FDiv[FromInt[n], FromInt[d]]
Zero == FZero(0)
RAdd(a, b) == FAdd[a, b]
RSub(a, b) == FAdd[a, FNeg(b)]
RMul(a, b) == FMul[a, b]
RDiv(a, b) == FDiv[a, b]
\* a < b, a > b, a == b of Go: FALSE when either is NaN
RLt(a, b) == a.k # "nan" /\ b.k # "nan" /\ FCmp[a, b] < 0
RGt(a, b) == a.k # "nan" /\ b.k # "nan" /\ FCmp[a, b] > 0
REq(a, b) == a.k # "nan" /\ b.k # "nan" /\ FCmp[a, b] = 0
\* float64(int(a)): the results the platforms give
RTrunc(a) == {FTrunc[a, conv] : conv \in IntConversions}
RMod1(a) == FMod1[a]
RAbs(a) == IF a.k = "nan" THEN a ELSE [a EXCEPT !.s = 0]

(***************************************************************************)
(* Strings.                                                                *)
(***************************************************************************)
CharAt(s, i) == SubSeq(s, i, i)

\* strings.HasPrefix(s, prefix)
HasPrefix(s, prefix) ==
    Len(prefix) <= Len(s) /\ SubSeq(s, 1, Len(prefix)) = prefix

\* strings.Index(s, sub) from the i-th character on, 1-based; 0 when sub does
\* not occur there
IndexAt[s \in STRING, sub \in STRING, i \in Int] ==
    IF i + Len(sub) - 1 > Len(s) THEN 0
    ELSE IF SubSeq(s, i, i + Len(sub) - 1) = sub THEN i
    ELSE IndexAt[s, sub, i + 1]

IndexFrom(s, sub, i) == IndexAt[s, sub, i]

\* strings.Replace(s, old, new, 1): the first occurrence only
ReplaceFirst(s, old, new) ==
    Only({IF i = 0 THEN s
          ELSE SubSeq(s, 1, i - 1) \o new \o SubSeq(s, i + Len(old), Len(s)) :
            i \in {IndexAt[s, old, 1]}})

Digits == "0123456789abcdef"
UpperCase == "ABCDEFGHIJKLMNOPQRSTUVWXYZ"
LowerCase == "abcdefghijklmnopqrstuvwxyz"

\* lower(c) of strconv: an upper-case letter made lower-case
lower[c \in STRING] ==
    Only({IF k = 0 THEN c ELSE CharAt(LowerCase, k) : k \in {IndexAt[UpperCase, c, 1]}})

\* the value of the digit c in the base, -1 when c is not a digit of the base
digitValue[c \in STRING, base \in Int] ==
    Only({IF k = 0 \/ k > base THEN -1 ELSE k - 1 : k \in {IndexAt[Digits, lower[c], 1]}})

isDigit(c) == digitValue[c, 10] >= 0

\* commonPrefixLenIgnoreCase(s, prefix), counted from the i-th character
prefixLen[s \in STRING, prefix \in STRING, i \in Int] ==
    IF i > Len(s) \/ i > Len(prefix) THEN i - 1
    ELSE IF lower[CharAt(s, i)] = CharAt(prefix, i) THEN prefixLen[s, prefix, i + 1]
    ELSE i - 1

\* strconv's special: [ok, v, n] for the text of an infinity or of NaN at the
\* start of s, n the number of characters it takes
special[s \in STRING] ==
    IF s = "" THEN [ok |-> FALSE, v |-> Zero, n |-> 0]
    ELSE IF CharAt(s, 1) \in {"+", "-", "i", "I"}
    THEN Only({Only({IF n = 3 \/ n = 8
                     THEN [ok |-> TRUE, v |-> FInf(IF CharAt(s, 1) = "-" THEN 1 ELSE 0),
                           n |-> nsign + n]
                     ELSE [ok |-> FALSE, v |-> Zero, n |-> 0] :
                       n \in {Only({IF 3 < c /\ c < 8 THEN 3 ELSE c :
                                c \in {prefixLen[SubSeq(s, nsign + 1, Len(s)),
                                                 "infinity", 1]}})}}) :
                 nsign \in {IF CharAt(s, 1) \in {"+", "-"} THEN 1 ELSE 0}})
    ELSE IF CharAt(s, 1) \in {"n", "N"} /\ prefixLen[s, "nan", 1] = 3
    THEN [ok |-> TRUE, v |-> NaN, n |-> 3]
    ELSE [ok |-> FALSE, v |-> Zero, n |-> 0]

\* 10^n
BPow10[n \in Int] ==
    IF n <= 0 THEN <<1>>
    ELSE IF n <= 9 THEN BFromInt[10 ^ n]
    ELSE IF n % 2 = 1 THEN BMulSmall[BPow10[n - 1], 10]
    ELSE Only({BMul[h, h] : h \in {BPow10[n \div 2]}})

\* readFloat's loop over the mantissa from the i-th character: st holds sawdot,
\* sawdigits, nd, dp, the mantissa and whether an underscore was seen; the
\* result is st with i, the place where the loop stopped
readMantissa[s \in STRING, i \in Int, base \in Int,
             st \in [sawdot : BOOLEAN, sawdigits : BOOLEAN, nd : Int, dp : Int,
                     mant : Limbs, underscores : BOOLEAN]] ==
    IF i > Len(s) THEN [st |-> st, i |-> i]
    ELSE IF CharAt(s, i) = "_"
    THEN readMantissa[s, i + 1, base, [st EXCEPT !.underscores = TRUE]]
    ELSE IF CharAt(s, i) = "."
    THEN IF st.sawdot THEN [st |-> st, i |-> i]
         ELSE readMantissa[s, i + 1, base, [st EXCEPT !.sawdot = TRUE, !.dp = st.nd]]
    ELSE IF digitValue[CharAt(s, i), base] < 0 THEN [st |-> st, i |-> i]
    ELSE IF digitValue[CharAt(s, i), base] = 0 /\ st.nd = 0
    THEN readMantissa[s, i + 1, base, [st EXCEPT !.sawdigits = TRUE, !.dp = @ - 1]]
    ELSE readMantissa[s, i + 1, base,
                      [st EXCEPT !.sawdigits = TRUE, !.nd = @ + 1,
                                 !.mant = BAdd[BMulSmall[@, base],
                                               BFromInt[digitValue[CharAt(s, i), base]]]]]

\* readFloat's loop over the digits of the exponent from the i-th character:
\* [e, i, underscores]; e stops growing at 10000
readExponent[s \in STRING, i \in Int, e \in Int, underscores \in BOOLEAN] ==
    IF i > Len(s) THEN [e |-> e, i |-> i, underscores |-> underscores]
    ELSE IF CharAt(s, i) = "_" THEN readExponent[s, i + 1, e, TRUE]
    ELSE IF isDigit(CharAt(s, i))
    THEN readExponent[s, i + 1,
                      IF e < 10000 THEN e * 10 + digitValue[CharAt(s, i), 10] ELSE e,
                      underscores]
    ELSE [e |-> e, i |-> i, underscores |-> underscores]

\* underscoreOK's loop from the i-th character, last the kind of the character
\* before it: "0" for a digit or the base prefix, "_", "!" for another, "^" at the start
underscoreLoop[s \in STRING, i \in Int, hex \in BOOLEAN, last \in STRING] ==
    IF i > Len(s) THEN last # "_"
    ELSE IF digitValue[CharAt(s, i), IF hex THEN 16 ELSE 10] >= 0
    THEN underscoreLoop[s, i + 1, hex, "0"]
    ELSE IF CharAt(s, i) = "_"
    THEN (IF last # "0" THEN FALSE ELSE underscoreLoop[s, i + 1, hex, "_"])
    ELSE IF last = "_" THEN FALSE
    ELSE underscoreLoop[s, i + 1, hex, "!"]

\* underscoreOK(s): underscores only between digits, or after a base prefix
underscoreOK[s \in STRING] ==
    Only({IF Len(t) >= 2 /\ CharAt(t, 1) = "0" /\ lower[CharAt(t, 2)] \in {"b", "o", "x"}
          THEN underscoreLoop[t, 3, lower[CharAt(t, 2)] = "x", "0"]
          ELSE underscoreLoop[t, 1, FALSE, "^"] :
            t \in {IF s # "" /\ CharAt(s, 1) \in {"+", "-"} THEN SubSeq(s, 2, Len(s)) ELSE s}})

\* the float64 nearest to mant * 10^x
decimalValue[s \in {0, 1}, mant \in Limbs, x \in Int] ==
    Only({Only({Only({Round[s, d.q, -k, d.r # <<>>] :
                        d \in {IF x >= 0 THEN [q |-> BMul[mant, p], r |-> <<>>]
                               ELSE BDivMod[BShl[mant, k], p]}}) :
                  k \in {IF x >= 0 THEN 0 ELSE Max2(0, 56 + BBitLen[p] - BBitLen[mant])}}) :
            p \in {BPow10[IF x >= 0 THEN x ELSE -x]}})

\* readFloat's optional exponent, from the character after the exponent
\* letter: [ok, e, i, underscores], e the signed exponent and i the place
\* where it ends; not ok when no digit follows
readSignedExponent[s \in STRING, i \in Int, underscores \in BOOLEAN] ==
    IF i > Len(s) THEN [ok |-> FALSE, e |-> 0, i |-> i, underscores |-> underscores]
    ELSE Only({
      IF j > Len(s) \/ ~isDigit(CharAt(s, j))
      THEN [ok |-> FALSE, e |-> 0, i |-> j, underscores |-> underscores]
      ELSE Only({[ok |-> TRUE, e |-> IF CharAt(s, i) = "-" THEN -x.e ELSE x.e, i |-> x.i,
                  underscores |-> x.underscores] :
                   x \in {readExponent[s, j, 0, underscores]}}) :
        j \in {IF CharAt(s, i) \in {"+", "-"} THEN i + 1 ELSE i}})

\* readFloat and the conversion that follows it, for the text after the sign
\* and the base prefix: [ok, v, n], n the place where the number ends; a
\* hexadecimal mantissa must have an exponent
readFloat[s \in STRING, i0 \in Int, neg \in {0, 1}, base \in Int] ==
    Only({
      IF ~m.st.sawdigits THEN [ok |-> FALSE, v |-> Zero, n |-> 0]
      ELSE Only({
        IF ~x.ok THEN [ok |-> FALSE, v |-> Zero, n |-> 0]
        ELSE IF x.underscores /\ ~underscoreOK[SubSeq(s, 1, x.i - 1)]
        THEN [ok |-> FALSE, v |-> Zero, n |-> 0]
        ELSE [ok |-> TRUE, n |-> x.i - 1,
              v |-> IF m.st.mant = <<>> THEN FZero(neg)
                    ELSE IF base = 16
                    THEN Round[neg, m.st.mant, 4 * (dp - m.st.nd) + x.e, FALSE]
                    ELSE IF dp + x.e > 310 THEN FInf(neg)
                    ELSE IF dp + x.e < -330 THEN FZero(neg)
                    ELSE decimalValue[neg, m.st.mant, dp + x.e - m.st.nd]] :
          dp \in {IF m.st.sawdot THEN m.st.dp ELSE m.st.nd},
          x \in {IF m.i <= Len(s)
                    /\ lower[CharAt(s, m.i)] = (IF base = 16 THEN "p" ELSE "e")
                 THEN readSignedExponent[s, m.i + 1, m.st.underscores]
                 ELSE [ok |-> base # 16, e |-> 0, i |-> m.i,
                       underscores |-> m.st.underscores]}}) :
        m \in {readMantissa[s, i0, base,
                            [sawdot |-> FALSE, sawdigits |-> FALSE, nd |-> 0, dp |-> 0,
                             mant |-> <<>>, underscores |-> FALSE]]}})

\* strconv.ParseFloat(s, 64): [ok, v], ok when the error is nil; v is 0 after a
\* syntax error and an infinity after a range error
parseFloat[s \in STRING] ==
    Only({
      IF sp.ok THEN (IF sp.n = Len(s) THEN [ok |-> TRUE, v |-> sp.v]
                     ELSE [ok |-> FALSE, v |-> Zero])
      ELSE IF s = "" THEN [ok |-> FALSE, v |-> Zero]
      ELSE Only({Only({
             IF ~r.ok \/ r.n # Len(s) THEN [ok |-> FALSE, v |-> Zero]
             ELSE [ok |-> r.v.k = "num", v |-> r.v] :
               r \in {Only({readFloat[s, IF hex THEN i + 2 ELSE i,
                                       IF CharAt(s, 1) = "-" THEN 1 ELSE 0,
                                       IF hex THEN 16 ELSE 10] :
                               hex \in {i + 2 <= Len(s) /\ CharAt(s, i) = "0"
                                          /\ lower[CharAt(s, i + 1)] = "x"}})}}) :
             i \in {IF CharAt(s, 1) \in {"+", "-"} THEN 2 ELSE 1}}) :
        sp \in {special[s]}})


\* the n decimal digits of a natural number below 10^n
BDecimal[a \in Limbs, n \in Int] ==
    IF n <= 0 THEN ""
    ELSE IF n = 1 THEN CharAt(Digits, (IF a = <<>> THEN 0 ELSE a[1]) + 1)
    ELSE Only({BDecimal[d.q, n - n \div 2] \o BDecimal[d.r, n \div 2] :
                 d \in {BDivMod[a, BPow10[n \div 2]]}})

\* the decimal digits of a small natural number, at least width of them
IntDigits[n \in Int, width \in Int] ==
    IF n < 10 /\ width <= 1 THEN CharAt(Digits, n + 1)
    ELSE IntDigits[n \div 10, width - 1] \o CharAt(Digits, (n % 10) + 1)

\* the decimal digits of a natural number, at least width of them
BDigits[a \in Limbs, width \in Int] ==
    IF Len(a) <= 2
    THEN IntDigits[(IF Len(a) >= 1 THEN a[1] ELSE 0) + (IF Len(a) = 2 THEN a[2] * Base ELSE 0),
                   width]
    ELSE
    Only({IF Len(t) > width /\ CharAt(t, 1) = "0" THEN SubSeq(t, 2, Len(t)) ELSE t :
            t \in {BDecimal[a, Max2(width, 1 + (BBitLen[a] * 30103) \div 100000)]}})

\* a / 2^n rounded to the nearest integer, ties to even
BShrRound[a \in Limbs, n \in Int] ==
    IF n <= 0 THEN a
    ELSE IF n > BBitLen[a] + 1 THEN <<>>
    ELSE Only({IF c > 0 \/ (c = 0 /\ BOdd(q)) THEN BAdd[q, <<1>>] ELSE q :
                 q \in {BShr[a, n]},
                 c \in {BCmp[BLow[a, n], BShl[<<1>>, n - 1]]}})

\* the digits of a number of 10^-precision units, written with the point
fixedText[d \in STRING, precision \in Int] ==
    IF precision = 0 THEN d
    ELSE SubSeq(d, 1, Len(d) - precision) \o "." \o SubSeq(d, Len(d) - precision + 1, Len(d))

\* fmt.Sprintf("%.*f", precision, x)
formatFixed[x \in F64, precision \in Int] ==
    IF x.k = "nan" THEN "NaN"
    ELSE IF x.k = "inf" THEN (IF x.s = 1 THEN "-Inf" ELSE "+Inf")
    ELSE (IF x.s = 1 THEN "-" ELSE "")
         \o fixedText[BDigits[Only({IF x.e >= 0 THEN BShl[scaled, x.e]
                                    ELSE BShrRound[scaled, -x.e] :
                                      scaled \in {BMul[x.m, BPow10[precision]]}}),
                              precision + 1],
                      precision]

FormatFixed(x, precision) == formatFixed[x, precision]

\* the texts of numbers the exchange of the model sends, each read once
AnswerTexts ==
    {"", "abc", "0.00001", "0.1", "1", "1.25", "125e-2", "Inf", "25E-1", "4", "8", "10", "16",
     "2e1", "100"}

parsedAnswers == [s \in AnswerTexts |-> parseFloat[s]]

ParseFloat(s) == IF s \in AnswerTexts THEN parsedAnswers[s] ELSE parseFloat[s]

(***************************************************************************)
(* Configuration.                                                          *)
(***************************************************************************)
\* main's defaultPairs; InitDB seeds the same seven pairs from its own list
defaultPairs ==
    <<"BTCUSDT", "TRXUSDT", "SUIUSDT", "SOLUSDT", "NEARUSDT", "TONUSDT", "ICPUSDT">>

\* the list of pairs written out in the client's GetPositions
AllPairs ==
    <<"BTCUSDT", "TRXUSDT", "SUIUSDT", "SOLUSDT", "NEARUSDT", "TONUSDT", "ICPUSDT">>

contains(slice, item) == \E i \in DOMAIN slice : slice[i] = item

isValidTicker(ticker) == \E i \in DOMAIN defaultPairs : defaultPairs[i] = ticker

\* main's static per-ticker defaults
defaultLotSizes ==
    [t \in {"BTCUSDT", "TRXUSDT", "SUIUSDT", "SOLUSDT", "NEARUSDT", "TONUSDT", "ICPUSDT"} |->
        IF t = "BTCUSDT" THEN Rat(1, 1000000)
        ELSE IF t = "TRXUSDT" THEN Rat(1, 10)
        ELSE Rat(1, 10000)]

\* bounds of the lot-size validation, 0.0001 and 1
MinLot == Rat(1, 10000)
MaxLot == Rat(1, 1)
\* the handler's fallback lot size, 0.1
FallbackLot == Rat(1, 10)
\* the minimum available balance, 28.77
BalanceFloor == Rat(2877, 100)
\* the minimum order value, 10.0
minOrderValueUSDT == Rat(10, 1)
\* number of attempts of the lot-size fetch
FetchAttempts == 3

(***************************************************************************)
(* State.                                                                  *)
(***************************************************************************)
VARIABLES
    phase,          \* "start", "dbready", "serving" or "exited" (log.Fatalf)
    states,         \* table states: rows [ticker, signal, position], in insertion order
    transactions,   \* table transactions: rows in id order; ord is the place, in its run's
                    \* order history, of the order the row was recorded for
    accountValues,  \* table account_value: rows in id order; by is the request that wrote the row
    lotSizes,       \* the in-memory lot-size cache, a map ticker -> step
    mu,             \* the global mutex: 0 when free, else the run holding it
    early,          \* how many requests were answered 405 and 400 before mu.Lock()
    inbox,          \* the validated alerts whose goroutines wait in mu.Lock()
    run,            \* per run of the guarded section, numbered in lock order:
                    \* its position in handler and its locals
    orders,         \* history: the calls of Client.PlaceOrder by the latest run
    before,         \* history: the tables as the latest run found them at mu.Lock(),
                    \* and before the first run as the process found them
    retries,        \* fetchLotSizes' loop counter
    pf,             \* one call of getCurrentPrices: its goroutines, channels and map
    poll,           \* one order of the polling handler and its call of checkOrderStatus
    gp,             \* one call of Client.GetPositions over the client's full list of pairs
    calc,           \* one pass through the size checks of the buy or the sell branch
    lk              \* the handlers contending for main's mutex and the store's mutex

vars == <<phase, states, transactions, accountValues, lotSizes, mu, early, inbox, run,
          orders, before, retries, pf, poll, gp, calc, lk>>

\* the state of the calls modelled apart from the webhook handler
sub == <<pf, poll, gp, calc, lk>>

\* the state of the webhook handler and of startup
core == <<phase, states, transactions, accountValues, lotSizes, mu, early, inbox, run,
          orders, before, retries>>

Runs == 1 .. MaxRequests

NoPositions == [t \in {} |-> Zero]

\* no call of getCurrentPrices is under way
NoFetch ==
    [main |-> "idle", tickers |-> <<>>, w |-> <<>>, sem |-> 0, wg |-> 0,
     priceChan |-> <<>>, closed |-> FALSE, closer |-> "none", prices |-> NoPositions]

\* no order is being confirmed
NoPoll == [pc |-> "idle"]

\* no separate call of GetPositions is under way
NoQuery == [pc |-> "idle"]

\* no separate pass through the size checks is under way
NoSizing == [pc |-> "idle"]

\* the two mutexes are not followed
NoLocks == [mu |-> 0, dbmu |-> 0, h |-> <<>>, panicked |-> FALSE]

\* a run that has not started: the handler's locals hold their zero values
NewRun ==
    [pc |-> "idle", ticker |-> "", signal |-> "", status |-> "none",
     cur |-> [signal |-> "", position |-> Zero],
     spotBalance |-> Zero, positions |-> NoPositions, price |-> Zero,
     totalCryptoValue |-> Zero, buyCount |-> 0,
     lotSize |-> Zero, size |-> Zero, orderPlaced |-> FALSE, err |-> FALSE,
     \* history of the run, for the properties
     vprices |-> NoPositions, raw |-> Zero, targetPos |-> Zero, branch |-> "",
     queried |-> FALSE, dedup |-> FALSE, updated |-> FALSE,
     submitted |-> 0, recorded |-> 0, msg |-> "", openSeen |-> FALSE]

(***************************************************************************)
(* The store (package db).  Every operation runs under the store's own     *)
(* mutex and is one atomic step.                                           *)
(***************************************************************************)
\* the NULL of a REAL column
Null == [k |-> "null", s |-> 0, m |-> <<>>, e |-> 0]

\* a float64 bound to a parameter of a statement, as the column keeps it:
\* NaN becomes NULL, and -0.0 is read back as 0.0
bindDouble(x) ==
    IF x.k = "nan" THEN Null
    ELSE IF x.k = "num" /\ x.m = <<>> THEN FZero(0)
    ELSE x

\* SELECT COUNT(*) FROM states WHERE ticker = ?
CountRows(tbl, ticker) == Cardinality({i \in DOMAIN tbl : tbl[i].ticker = ticker})

\* initState without its COUNT(*) test: the seed row is inserted on every start
initState_unconditional(tbl, ticker) ==
    Append(tbl, [ticker |-> ticker, signal |-> "sell", position |-> Zero])

\* initState: insert the seed row unless the ticker has a row
initState(tbl, ticker) ==
    IF CountRows(tbl, ticker) = 0
    THEN Append(tbl, [ticker |-> ticker, signal |-> "sell", position |-> Zero])
    ELSE tbl

\* InitDB's loop over its list of pairs
RECURSIVE initStates(_, _, _)
initStates(tbl, pairs, i) ==
    IF i > Len(pairs) THEN tbl ELSE initStates(initState(tbl, pairs[i]), pairs, i + 1)

\* GetState: the first row of the ticker; an error, with the zero State, when
\* there is none (sql.ErrNoRows) or when Scan finds a NULL position
GetState(tbl, ticker) ==
    IF CountRows(tbl, ticker) = 0
    THEN [ok |-> FALSE, signal |-> "", position |-> Zero]
    ELSE Only({IF tbl[i].position = Null
               THEN [ok |-> FALSE, signal |-> "", position |-> Zero]
               ELSE [ok |-> TRUE, signal |-> tbl[i].signal, position |-> tbl[i].position] :
                 i \in {CHOOSE k \in DOMAIN tbl :
                          /\ tbl[k].ticker = ticker
                          /\ \A j \in DOMAIN tbl : tbl[j].ticker = ticker => k <= j}})

\* an UPDATE without its WHERE clause: every row takes the signal and position
UpdateState_allRows(tbl, ticker, signal, position) ==
    [i \in DOMAIN tbl |->
        [ticker |-> tbl[i].ticker, signal |-> signal, position |-> bindDouble(position)]]

\* an UPDATE that sets the position and leaves the signal
UpdateState_positionOnly(tbl, ticker, signal, position) ==
    [i \in DOMAIN tbl |->
        IF tbl[i].ticker = ticker
        THEN [ticker |-> ticker, signal |-> tbl[i].signal, position |-> bindDouble(position)]
        ELSE tbl[i]]

\* UpdateState: UPDATE states SET signal, position WHERE ticker = ?
UpdateState(tbl, ticker, signal, position) ==
    [i \in DOMAIN tbl |->
        IF tbl[i].ticker = ticker
        THEN [ticker |-> ticker, signal |-> signal, position |-> bindDouble(position)]
        ELSE tbl[i]]

\* RecordTransaction: INSERT INTO transactions
RecordTransaction(tbl, ticker, signal, amount, price, usdtValue, ord) ==
    Append(tbl, [ticker |-> ticker, signal |-> signal, amount |-> bindDouble(amount),
                 price |-> bindDouble(price), usdtValue |-> bindDouble(usdtValue),
                 ord |-> ord])

\* a store that keeps only the newest sample
RecordAccountValue_replace(tbl, totalUSDT, by) ==
    <<[totalUSDT |-> bindDouble(totalUSDT), by |-> by]>>

\* RecordAccountValue: INSERT INTO account_value
RecordAccountValue(tbl, totalUSDT, by) ==
    Append(tbl, [totalUSDT |-> bindDouble(totalUSDT), by |-> by])

\* InitDB: create the tables if missing and seed the configured pairs
InitDB ==
    /\ phase = "start"
    /\ states' = initStates(states, defaultPairs, 1)
    /\ phase' = "dbready"
    /\ UNCHANGED <<transactions, accountValues, lotSizes, mu, early, inbox, run, orders,
                   before, retries>>
    /\ UNCHANGED sub

(***************************************************************************)
(* The exchange client (package okx).  An HTTP answer is a record          *)
(* [status, code, data]; status 0 stands for a transport failure.          *)
(***************************************************************************)
\* makeRequest: TRUE when it returns a nil error
makeRequest(resp) == resp.status = 200

Put(m, k, v) == [x \in DOMAIN m \cup {k} |-> IF x = k THEN v ELSE m[x]]

Min(S) == CHOOSE x \in S : \A y \in S : x <= y

\* Client.GetSpotBalance: [kind, v], kind "ok", "err" or "panic"
GetSpotBalance(resp) ==
    IF ~makeRequest(resp) THEN [kind |-> "err", v |-> Zero]
    ELSE IF resp.code # "0" THEN [kind |-> "err", v |-> Zero]
    ELSE IF Len(resp.data) = 0 THEN [kind |-> "panic", v |-> Zero]
    ELSE LET details == resp.data[1].details
             hits == {i \in DOMAIN details : details[i].ccy = "USDT"}
         IN  IF hits = {} THEN [kind |-> "err", v |-> Zero]
             ELSE Only({IF p.ok THEN [kind |-> "ok", v |-> p.v]
                        ELSE [kind |-> "err", v |-> Zero] :
                          p \in {ParseFloat(details[Min(hits)].availBal)}})

\* a client that never finds a pending order
GetOpenOrders_none(resp) ==
    IF ~makeRequest(resp) THEN [kind |-> "err", open |-> FALSE]
    ELSE IF resp.code # "0" THEN [kind |-> "err", open |-> FALSE]
    ELSE [kind |-> "ok", open |-> FALSE]

\* Client.GetOpenOrders: [kind, open]
GetOpenOrders(resp) ==
    IF ~makeRequest(resp) THEN [kind |-> "err", open |-> FALSE]
    ELSE IF resp.code # "0" THEN [kind |-> "err", open |-> FALSE]
    ELSE [kind |-> "ok", open |-> Len(resp.data) > 0]

\* the inner loop of GetPositions over the client's list of pairs, for one detail
RECURSIVE attribute(_, _, _, _)
attribute(positions, detail, pairs, j) ==
    IF j > Len(pairs) THEN positions
    ELSE IF HasPrefix(pairs[j], detail.ccy)
    THEN Only({IF p.ok THEN attribute(Put(positions, pairs[j], p.v), detail, pairs, j + 1)
               ELSE attribute(positions, detail, pairs, j + 1) :
                 p \in {ParseFloat(IF detail.availEq = "" THEN detail.availBal
                                   ELSE detail.availEq)}})
    ELSE attribute(positions, detail, pairs, j + 1)

\* the outer loop of GetPositions over the details of the answer
RECURSIVE collect(_, _, _)
collect(positions, details, i) ==
    IF i > Len(details) THEN positions
    ELSE collect(attribute(positions, details[i], AllPairs, 1), details, i + 1)

\* Client.GetPositions: [kind, positions]
GetPositions(resp) ==
    IF ~makeRequest(resp) THEN [kind |-> "err", positions |-> NoPositions]
    ELSE IF resp.code # "0" THEN [kind |-> "err", positions |-> NoPositions]
    ELSE IF Len(resp.data) = 0 THEN [kind |-> "panic", positions |-> NoPositions]
    ELSE [kind |-> "ok", positions |-> collect(NoPositions, resp.data[1].details, 1)]

\* the row update with a position of 0 whatever the exchange reports
Holding_none(positions, ticker) == Zero

\* positions[ticker] of a Go map: the zero value when the key is missing
Holding(positions, ticker) ==
    IF ticker \in DOMAIN positions THEN positions[ticker] ELSE Zero

\* main's getCurrentPrice: the last price, 0 on any failure
getCurrentPrice(resp) ==
    IF resp.status # 200 THEN Zero
    ELSE IF Len(resp.data) = 0 THEN Zero
    ELSE Only({IF p.ok THEN p.v ELSE Zero : p \in {ParseFloat(resp.data[1].last)}})

\* Client.getCurrentPrice: as main's, and 0 on a non-zero envelope code
clientGetCurrentPrice(resp) ==
    IF ~makeRequest(resp) THEN Zero
    ELSE IF resp.code # "0" \/ Len(resp.data) = 0 THEN Zero
    ELSE Only({IF p.ok THEN p.v ELSE Zero : p \in {ParseFloat(resp.data[1].last)}})

\* getPrecision: the number of characters after the point of
\* fmt.Sprintf("%f", lotSize); 0 for a lot size of 0 and for a text without a
\* point, that of NaN and of the infinities
getPrecision(lotSize) ==
    IF REq(lotSize, Zero) THEN 0
    ELSE Only({Only({IF dot = 0 THEN 0 ELSE Len(lotStr) - dot :
                       dot \in {IndexFrom(lotStr, ".", 1)}}) :
                 lotStr \in {FormatFixed(lotSize, 6)}})

\* the test without the per-order sCode
orderFailed_envelopeOnly(response) ==
    \/ response.code # "0"
    \/ Len(response.data) = 0

\* PlaceOrder's test of the decoded answer: TRUE when the order was not accepted
orderFailed(response) ==
    \/ response.code # "0"
    \/ Len(response.data) = 0
    \/ response.data[1].sCode # "0"

\* PlaceOrder's formattedSize: the size written with the decimals of the lot size
formattedSize(size, lotSize) == FormatFixed(size, getPrecision(lotSize))

\* Client.PlaceOrder after formattedSize, sz here, is written: [kind, submitted, sz];
\* submitted tells whether the order request was sent to the exchange, sz is
\* the size on the wire; the failure branch reads Data[0] and panics when the
\* answer has no data
PlaceOrder(ticker, side, sz, priceResp, orderResp) ==
    LET price == clientGetCurrentPrice(priceResp)
    IN  IF REq(price, Zero)
        THEN [kind |-> "err", submitted |-> FALSE, sz |-> sz]
        ELSE IF ~makeRequest(orderResp)
        THEN [kind |-> "err", submitted |-> TRUE, sz |-> sz]
        ELSE IF orderFailed(orderResp)
        THEN IF Len(orderResp.data) = 0
             THEN [kind |-> "panic", submitted |-> TRUE, sz |-> sz]
             ELSE [kind |-> "err", submitted |-> TRUE, sz |-> sz]
        ELSE [kind |-> "ok", submitted |-> TRUE, sz |-> sz]

(***************************************************************************)
(* The answers the exchange may give.                                      *)
(***************************************************************************)
Http(status, code, data) == [status |-> status, code |-> code, data |-> data]

BalanceDetail(ccy, avail) == [ccy |-> ccy, cashBal |-> avail, availBal |-> avail]

BalanceResponses ==
    {Http(500, "0", <<>>), Http(200, "1", <<>>), Http(200, "0", <<>>),
     Http(200, "0", <<[details |-> <<BalanceDetail("BTC", "8"),
                                     BalanceDetail("USDT", "100")>>]>>)}
    \cup {Http(200, "0", <<[details |-> <<BalanceDetail("USDT", a)>>]>>) :
            a \in {"2e1", "abc"}}

OpenOrdersResponses ==
    {Http(500, "0", <<>>), Http(200, "1", <<>>), Http(200, "0", <<>>),
     Http(200, "0", <<[ordId |-> "1"]>>)}

PosDetail(ccy, eq, bal) == [ccy |-> ccy, availEq |-> eq, availBal |-> bal]

PositionDetails ==
    {<<>>,
     <<PosDetail("BTC", "", "8"), PosDetail("SOL", "16", "16")>>,
     <<PosDetail("USDT", "100", "100")>>,
     <<PosDetail("BTC", "abc", "8"), PosDetail("SUI", "125e-2", "1.25")>>}

PositionsResponses ==
    {Http(500, "0", <<>>), Http(200, "1", <<>>), Http(200, "0", <<>>)}
    \cup {Http(200, "0", <<[details |-> d]>>) : d \in PositionDetails}

\* the last price the exchange quotes for a ticker
Quote(ticker) ==
    IF ticker = "BTCUSDT" THEN "10"
    ELSE IF ticker = "SOLUSDT" THEN "25E-1"
    ELSE "4"

PriceResponses(ticker) ==
    {Http(500, "0", <<>>),
     Http(200, "0", <<[last |-> Quote(ticker)]>>),
     Http(200, "1", <<[last |-> Quote(ticker)]>>)}

OrderData(sCode) == [ordId |-> "1", sCode |-> sCode, sMsg |-> ""]

OrderResponses ==
    {Http(500, "1", <<>>),
     Http(200, "0", <<OrderData("0")>>),
     Http(200, "0", <<OrderData("51008")>>),
     Http(200, "1", <<OrderData("51008")>>),
     Http(200, "1", <<>>)}

Instruments(status, json, data) == [status |-> status, json |-> json, data |-> data]

Inst(instId, lotSz) == [instId |-> instId, lotSz |-> lotSz]

InstrumentsResponses ==
    {Instruments(0, FALSE, <<>>), Instruments(500, TRUE, <<>>),
     Instruments(200, FALSE, <<>>)}
    \cup {Instruments(200, TRUE, d) :
            d \in {<<Inst("SOL-USDT", "1"), Inst("SUI-USDT", "1")>>,
                   <<Inst("ETH-USDT", "0.1"), Inst("SOL-USDT", "1"),
                     Inst("SUI-USDT", "1")>>,
                   <<Inst("BTC-USDT", "0.00001"), Inst("SOL-USDT", "1"),
                     Inst("SUI-USDT", "1")>>,
                   <<Inst("BTC-USDT", "abc"), Inst("SOL-USDT", "1"),
                     Inst("SUI-USDT", "1")>>,
                   <<Inst("SOL-USDT", "Inf"), Inst("SOL-USDT", "1"),
                     Inst("SUI-USDT", "1")>>}}

(***************************************************************************)
(* The database file the process finds when it starts: none yet (first     *)
(* start), or the one an earlier run of the process left.  UsedStore is    *)
(* the store after three signals handled by an earlier process, each with  *)
(* answers of the sets above:                                              *)
(*   buy BTCUSDT  (balance 100, price 10, no other buy): buy 10, then the  *)
(*                exchange reports a holding of 8 BTC;                     *)
(*   buy SOLUSDT  (balance 100, BTC valued 80, price 2.5, one other buy):  *)
(*                target 90/2.5 = 36, buy 36, then holdings of 8 and 16;   *)
(*   sell BTCUSDT (position 8, price 10): sell 8, accepted but not yet     *)
(*                filled, so the exchange still reports 8 BTC.             *)
(* Rows of that earlier process carry the run number 0.                    *)
(***************************************************************************)
Accepted == Http(200, "0", <<OrderData("0")>>)

FreshStore ==
    [states |-> <<>>, transactions |-> <<>>, accountValues |-> <<>>]

UsedStore ==
    [states |->
        <<[ticker |-> "BTCUSDT", signal |-> "sell", position |-> Rat(8, 1)],
          [ticker |-> "TRXUSDT", signal |-> "sell", position |-> Zero],
          [ticker |-> "SUIUSDT", signal |-> "sell", position |-> Zero],
          [ticker |-> "SOLUSDT", signal |-> "buy", position |-> Rat(16, 1)],
          [ticker |-> "NEARUSDT", signal |-> "sell", position |-> Zero],
          [ticker |-> "TONUSDT", signal |-> "sell", position |-> Zero],
          [ticker |-> "ICPUSDT", signal |-> "sell", position |-> Zero]>>,
     transactions |->
        <<[ticker |-> "BTCUSDT", signal |-> "buy", amount |-> Rat(10, 1),
           price |-> Rat(10, 1), usdtValue |-> Rat(100, 1), ord |-> 1],
          [ticker |-> "SOLUSDT", signal |-> "buy", amount |-> Rat(36, 1),
           price |-> Rat(5, 2), usdtValue |-> Rat(90, 1), ord |-> 1],
          [ticker |-> "BTCUSDT", signal |-> "sell", amount |-> Rat(8, 1),
           price |-> Rat(10, 1), usdtValue |-> Rat(80, 1), ord |-> 1]>>,
     accountValues |->
        <<[totalUSDT |-> Rat(180, 1), by |-> 0], [totalUSDT |-> Rat(220, 1), by |-> 0],
          [totalUSDT |-> Rat(220, 1), by |-> 0]>>]

Stores == {FreshStore, UsedStore}

Init ==
    /\ phase = "start"
    /\ \E store \in Stores :
         /\ states = store.states
         /\ transactions = store.transactions
         /\ accountValues = store.accountValues
    /\ lotSizes = NoPositions
    /\ orders = <<>>
    /\ mu = 0
    /\ early = [s \in {"405", "400"} |-> 0]
    /\ inbox = <<>>
    /\ run = [r \in Runs |-> NewRun]
    /\ before = [states |-> states, transactions |-> transactions,
                 accountValues |-> accountValues]
    /\ retries = 0
    /\ pf = NoFetch
    /\ poll = NoPoll
    /\ gp = NoQuery
    /\ calc = NoSizing
    /\ lk = NoLocks

(***************************************************************************)
(* Startup: main, InitDB (above) and fetchLotSizes.                        *)
(***************************************************************************)
\* the loop of fetchLotSizes over the instruments of a decoded answer
RECURSIVE parseLots(_, _, _)
parseLots(lots, data, i) ==
    IF i > Len(data) THEN lots
    ELSE Only({IF ~contains(defaultPairs, ticker) THEN parseLots(lots, data, i + 1)
               ELSE IF ~p.ok THEN parseLots(lots, data, i + 1)
               ELSE IF RLt(p.v, MinLot) \/ RGt(p.v, MaxLot)
               THEN parseLots(lots, data, i + 1)
               ELSE parseLots(Put(lots, ticker, p.v), data, i + 1) :
                 ticker \in {ReplaceFirst(data[i].instId, "-USDT", "USDT")},
                 p \in {ParseFloat(data[i].lotSz)}})

\* main's loop setting the default lot size of every pair the fetch left out
RECURSIVE fillDefaults(_, _)
fillDefaults(lots, i) ==
    IF i > Len(defaultPairs) THEN lots
    ELSE IF defaultPairs[i] \in DOMAIN lots THEN fillDefaults(lots, i + 1)
    ELSE fillDefaults(Put(lots, defaultPairs[i], defaultLotSizes[defaultPairs[i]]), i + 1)

\* a loop that never gives up
moreAttempts_unbounded(n) == TRUE

\* the loop condition of fetchLotSizes: retries < 3
moreAttempts(n) == n < FetchAttempts

\* one iteration of fetchLotSizes' retry loop, and main's continuation when
\* fetchLotSizes returns (its loop counter dies with it)
FetchLotSizes ==
    /\ phase = "dbready"
    /\ \E resp \in InstrumentsResponses :
         IF resp.status # 200
         THEN /\ retries' = retries + 1
              /\ phase' = IF moreAttempts(retries + 1) THEN "dbready" ELSE "exited"
              /\ UNCHANGED lotSizes
         ELSE IF ~resp.json
         THEN /\ phase' = "exited"
              /\ UNCHANGED <<lotSizes, retries>>
         ELSE /\ lotSizes' = fillDefaults(parseLots(lotSizes, resp.data, 1), 1)
              /\ phase' = "serving"
              /\ retries' = 0
    /\ UNCHANGED <<states, transactions, accountValues, mu, early, inbox, run, orders,
                   before>>
    /\ UNCHANGED sub

(***************************************************************************)
(* handler: one webhook request.                                           *)
(***************************************************************************)
Methods == {"POST", "GET"}

\* a request body: whether its first JSON value decodes into an Alert, the
\* fields of that value, and the text that follows the value
Alert(json, ticker, signal) ==
    [json |-> json, ticker |-> ticker, signal |-> signal, rest |-> ""]

\* the body of an alert followed by more text
Trailing(alert, rest) == [alert EXCEPT !.rest = rest]

Bodies ==
    {Alert(FALSE, "", ""), Alert(TRUE, "", ""), Alert(TRUE, "ETHUSDT", "buy")}
    \cup {Alert(TRUE, t, s) : t \in {"BTCUSDT", "SOLUSDT", "SUIUSDT"},
                              s \in {"buy", "sell"}}
    \cup {Alert(TRUE, "BTCUSDT", "hold")}
    \cup {Trailing(Alert(TRUE, "BTCUSDT", "buy"), "}")}

\* json.NewDecoder(r.Body).Decode(&alert): the first value of the body is
\* decoded, what follows it is not read
Decode(body) ==
    IF body.json THEN [err |-> FALSE, ticker |-> body.ticker, signal |-> body.signal]
    ELSE [err |-> TRUE, ticker |-> "", signal |-> ""]

\* the program counters inside the section guarded by mu
Critical ==
    {"state", "balance", "openorders", "positions", "price", "allocate", "excess",
     "buy", "sell", "repositions", "sample"}

\* the handler writes its answer and returns, and the deferred mu.Unlock()
\* runs: the locals die, the history of the run is kept
Exit(q, status) ==
    [NewRun EXCEPT !.pc = "done", !.status = status, !.ticker = q.ticker,
                   !.signal = q.signal, !.queried = q.queried, !.dedup = q.dedup,
                   !.updated = q.updated, !.submitted = q.submitted,
                   !.recorded = q.recorded, !.openSeen = q.openSeen]

\* http.Error(w, msg, http.StatusInternalServerError) and return
Fail(q, msg) == [Exit(q, "500") EXCEPT !.msg = msg]

\* the mutex after a step of run r: released when the handler has returned
Unlock(r) == IF run'[r].pc = "done" THEN 0 ELSE mu

\* the number of runs started, and of requests received, so far
Started == Cardinality({r \in DOMAIN run : run[r].pc # "idle"})

Received == early["405"] + early["400"] + Len(inbox) + Started

Remove(seq, i) == [j \in 1 .. Len(seq) - 1 |-> IF j < i THEN seq[j] ELSE seq[j + 1]]

\* a request arrives: method check, JSON decoding and ticker validation; a valid
\* alert goes on to mu.Lock() and waits there
Receive ==
    /\ phase = "serving"
    /\ Received < MaxRequests
    /\ \E m \in Methods, body \in Bodies :
         IF m # "POST"
         THEN /\ early' = [early EXCEPT !["405"] = @ + 1]
              /\ UNCHANGED inbox
         ELSE IF Decode(body).err
         THEN /\ early' = [early EXCEPT !["400"] = @ + 1]
              /\ UNCHANGED inbox
         ELSE IF ~isValidTicker(Decode(body).ticker)
         THEN /\ early' = [early EXCEPT !["400"] = @ + 1]
              /\ UNCHANGED inbox
         ELSE /\ inbox' = Append(inbox, [ticker |-> Decode(body).ticker,
                                         signal |-> Decode(body).signal,
                                         rest |-> body.rest])
              /\ UNCHANGED early
    /\ UNCHANGED <<phase, states, transactions, accountValues, lotSizes, mu, run, orders,
                   before, retries>>
    /\ UNCHANGED sub

\* a handler that does not take the mutex
canLock_unguarded(m) == TRUE

\* mu.Lock() returns only while no run holds the mutex
canLock(m) == m = 0

\* mu.Lock() returns for the i-th waiting alert: the next run starts
Lock(i) ==
    /\ phase = "serving"
    /\ i \in DOMAIN inbox
    /\ canLock(mu)
    /\ LET r == Started + 1
       IN  /\ mu' = r
           /\ run' = [run EXCEPT ![r] =
                        [NewRun EXCEPT !.pc = "state", !.ticker = inbox[i].ticker,
                                       !.signal = inbox[i].signal]]
    /\ inbox' = Remove(inbox, i)
    /\ before' = [states |-> states, transactions |-> transactions,
                  accountValues |-> accountValues]
    /\ orders' = <<>>
    /\ UNCHANGED <<phase, states, transactions, accountValues, lotSizes, early, retries>>
    /\ UNCHANGED sub

\* the deduplication test removed, as the handler's log line suggests for testing
sameSignal_removed(currentState, alert) == FALSE

\* the deduplication test: the stored signal equals the alert's
sameSignal(currentState, alert) == currentState.signal = alert.signal

\* db.GetState and the deduplication check
Dedup(r) ==
    /\ phase = "serving"
    /\ run[r].pc = "state"
    /\ LET q == run[r]
           st == GetState(states, q.ticker)
       IN  run' = [run EXCEPT ![r] =
                     IF ~st.ok THEN Fail(q, "Database error")
                     ELSE IF sameSignal(st, q)
                     THEN [Exit(q, "200") EXCEPT !.dedup = TRUE]
                     ELSE [q EXCEPT
                             !.cur = [signal |-> st.signal, position |-> st.position],
                             !.pc = "balance"]]
    /\ mu' = Unlock(r)
    /\ UNCHANGED <<phase, states, transactions, accountValues, lotSizes, early, inbox,
                   orders, before, retries>>
    /\ UNCHANGED sub

\* the handler without its minimum-balance check
belowFloor_unchecked(spotBalance) == FALSE

\* spotBalance < 28.77
belowFloor(spotBalance) == RLt(spotBalance, BalanceFloor)

\* client.GetSpotBalance and the minimum-balance check
Balance(r) ==
    /\ phase = "serving"
    /\ run[r].pc = "balance"
    /\ \E resp \in BalanceResponses :
         \E q \in {[run[r] EXCEPT !.queried = TRUE]}, b \in {GetSpotBalance(resp)} :
             run' = [run EXCEPT ![r] =
                       IF b.kind = "panic" THEN Exit(q, "panic")
                       ELSE IF b.kind = "err" THEN Fail(q, "Failed to get balance")
                       ELSE IF belowFloor(b.v)
                       THEN Fail(q, "Insufficient available balance")
                       ELSE [q EXCEPT !.spotBalance = b.v, !.pc = "openorders"]]
    /\ mu' = Unlock(r)
    /\ UNCHANGED <<phase, states, transactions, accountValues, lotSizes, early, inbox,
                   orders, before, retries>>
    /\ UNCHANGED sub

\* the exchange's answer lists at least one pending order
ReportsOpen(resp) == resp.status = 200 /\ resp.code = "0" /\ resp.data # <<>>

\* client.GetOpenOrders and the open-orders check
OpenOrders(r) ==
    /\ phase = "serving"
    /\ run[r].pc = "openorders"
    /\ \E resp \in OpenOrdersResponses :
         LET q == [run[r] EXCEPT !.queried = TRUE, !.openSeen = ReportsOpen(resp)]
             o == GetOpenOrders(resp)
         IN  run' = [run EXCEPT ![r] =
                       IF o.kind = "err" THEN Fail(q, "Failed to check open orders")
                       ELSE IF o.open THEN Fail(q, "Open orders exist")
                       ELSE [q EXCEPT !.pc = "positions"]]
    /\ mu' = Unlock(r)
    /\ UNCHANGED <<phase, states, transactions, accountValues, lotSizes, early, inbox,
                   orders, before, retries>>
    /\ UNCHANGED sub

\* client.GetPositions
Positions(r) ==
    /\ phase = "serving"
    /\ run[r].pc = "positions"
    /\ \E resp \in PositionsResponses :
         \E q \in {[run[r] EXCEPT !.queried = TRUE]}, p \in {GetPositions(resp)} :
             run' = [run EXCEPT ![r] =
                       IF p.kind = "panic" THEN Exit(q, "panic")
                       ELSE IF p.kind = "err" THEN Fail(q, "Failed to get positions")
                       ELSE [q EXCEPT !.positions = p.positions, !.pc = "price"]]
    /\ mu' = Unlock(r)
    /\ UNCHANGED <<phase, states, transactions, accountValues, lotSizes, early, inbox,
                   orders, before, retries>>
    /\ UNCHANGED sub

\* getCurrentPrice(alert.Ticker)
Price(r) ==
    /\ phase = "serving"
    /\ run[r].pc = "price"
    /\ \E resp \in PriceResponses(run[r].ticker) :
         \E q \in {[run[r] EXCEPT !.queried = TRUE]}, price \in {getCurrentPrice(resp)} :
             run' = [run EXCEPT ![r] =
                       IF REq(price, Zero) THEN Fail(q, "Failed to get price")
                       ELSE [q EXCEPT !.price = price, !.pc = "allocate"]]
    /\ mu' = Unlock(r)
    /\ UNCHANGED <<phase, states, transactions, accountValues, lotSizes, early, inbox,
                   orders, before, retries>>
    /\ UNCHANGED sub

\* the valuation loop from the i-th pair on: pos * price of every pair held is
\* added to the total, in the order of defaultPairs, with the arithmetic of
\* the platform
RECURSIVE totalValue(_, _, _, _, _)
totalValue(total, positions, prices, i, conv) ==
    IF i > Len(defaultPairs) THEN total
    ELSE IF defaultPairs[i] \in DOMAIN positions
    THEN totalValue(MulAdd(total, positions[defaultPairs[i]], prices[defaultPairs[i]], conv),
                    positions, prices, i + 1, conv)
    ELSE totalValue(total, positions, prices, i + 1, conv)

\* the loop counting the pairs whose stored signal is buy
countBuys(tbl) ==
    Cardinality({i \in DOMAIN defaultPairs : GetState(tbl, defaultPairs[i]).signal = "buy"})

\* the lot size the handler uses: the cached one, or 0.1 when missing or out of range
chooseLotSize(lots, ticker) ==
    IF \/ ticker \notin DOMAIN lots
       \/ RLt(lots[ticker], MinLot)
       \/ RGt(lots[ticker], MaxLot)
    THEN FallbackLot
    ELSE lots[ticker]

\* the equal split taken over the buys already open, without the new one
targetAllocation_withoutNew(availableFunds, buyCount) ==
    RDiv(availableFunds, FromInt[buyCount])

\* targetAllocation := availableFunds / float64(buyCount+1)
targetAllocation(availableFunds, buyCount) ==
    RDiv(availableFunds, FromInt[buyCount + 1])

\* the size computation without the case of the first buy: the equal split is
\* used whatever the count of open buys
allocate_alwaysSplit(signal, cur, spotBalance, availableFunds, buyCount, price) ==
    IF signal = "buy"
    THEN LET currentPos == cur.position
         IN  Only({IF RGt(currentPos, Zero)
                   THEN IF RGt(currentPos, targetPos)
                        THEN [branch |-> "excess", size |-> RSub(currentPos, targetPos),
                              targetPos |-> targetPos]
                        ELSE [branch |-> "topup", size |-> Zero, targetPos |-> targetPos]
                   ELSE [branch |-> "split", size |-> targetPos, targetPos |-> targetPos] :
                     targetPos \in {RDiv(targetAllocation(availableFunds, buyCount),
                                         price)}})
    ELSE IF signal = "sell"
    THEN IF RGt(cur.position, Zero)
         THEN [branch |-> "sell", size |-> cur.position, targetPos |-> Zero]
         ELSE [branch |-> "flat", size |-> Zero, targetPos |-> Zero]
    ELSE [branch |-> "other", size |-> Zero, targetPos |-> Zero]

\* the size computation of the buy and sell branches, up to the first order:
\* [branch, size, targetPos]
allocate(signal, cur, spotBalance, availableFunds, buyCount, price) ==
    IF signal = "buy"
    THEN IF buyCount = 0
         THEN [branch |-> "first", size |-> RDiv(spotBalance, price), targetPos |-> Zero]
         ELSE LET currentPos == cur.position
              IN  Only({IF RGt(currentPos, Zero)
                        THEN IF RGt(currentPos, targetPos)
                             THEN [branch |-> "excess",
                                   size |-> RSub(currentPos, targetPos),
                                   targetPos |-> targetPos]
                             ELSE [branch |-> "topup", size |-> Zero,
                                   targetPos |-> targetPos]
                        ELSE [branch |-> "split", size |-> targetPos,
                              targetPos |-> targetPos] :
                          targetPos \in {RDiv(targetAllocation(availableFunds, buyCount),
                                              price)}})
    ELSE IF signal = "sell"
    THEN IF RGt(cur.position, Zero)
         THEN [branch |-> "sell", size |-> cur.position, targetPos |-> Zero]
         ELSE [branch |-> "flat", size |-> Zero, targetPos |-> Zero]
    ELSE [branch |-> "other", size |-> Zero, targetPos |-> Zero]

\* minimum order value, then size = float64(int(size/lotSize)) * lotSize: the
\* sizes the platforms' conversions to int give
normalize(size, price, lotSize) ==
    Only({IF RGt(lotSize, Zero)
          THEN {RMul(whole, lotSize) : whole \in RTrunc(RDiv(raised, lotSize))}
          ELSE {raised} :
            raised \in {Only({IF RLt(size, minSizeForValue) THEN minSizeForValue ELSE size :
                                minSizeForValue \in {RDiv(minOrderValueUSDT, price)}})}})

\* the float64 of the constant 1e-10
MultipleTolerance == decimalValue[0, <<1>>, -10]

\* lotSize > 0 && math.Abs(math.Mod(size/lotSize, 1)) > 1e-10
notMultiple(size, lotSize) ==
    RGt(lotSize, Zero) /\ RGt(RAbs(RMod1(RDiv(size, lotSize))), MultipleTolerance)

\* the statements after the branches without the test of orderPlaced
AfterOrders_unconditional(q) ==
    IF q.err THEN Fail(q, "Failed to place order")
    ELSE [NewRun EXCEPT !.pc = "repositions", !.ticker = q.ticker, !.signal = q.signal,
                        !.orderPlaced = q.orderPlaced, !.queried = q.queried,
                        !.submitted = q.submitted, !.recorded = q.recorded]

\* the statements after the signal branches: the error check, and the way on;
\* past the branches only alert and orderPlaced are read again
AfterOrders(q) ==
    IF q.err THEN Fail(q, "Failed to place order")
    ELSE IF q.orderPlaced
    THEN [NewRun EXCEPT !.pc = "repositions", !.ticker = q.ticker, !.signal = q.signal,
                        !.orderPlaced = q.orderPlaced, !.queried = q.queried,
                        !.submitted = q.submitted, !.recorded = q.recorded]
    ELSE Exit(q, "200")

NoResponse == Http(0, "", <<>>)

\* the entry of the order history for one call of PlaceOrder
OrderEntry(r, ticker, side, size, lotSize, res, orderResp) ==
    [rid |-> r, ticker |-> ticker, side |-> side, size |-> size, lotSize |-> lotSize,
     sz |-> res.sz, submitted |-> res.submitted, kind |-> res.kind,
     resp |-> IF res.submitted THEN orderResp ELSE NoResponse]

\* valuation of the holdings, buy count, lot size and the size computation
Allocate(r) ==
    /\ phase = "serving"
    /\ run[r].pc = "allocate"
    /\ LET q == run[r]
           held == {t \in DOMAIN q.positions : contains(defaultPairs, t)}
       IN  \E presp \in [held -> UNION {PriceResponses(t) : t \in held}] :
             /\ \A t \in held : presp[t] \in PriceResponses(t)
             /\ \E prices \in {[t \in held |-> getCurrentPrice(presp[t])]} :
                \E totalCryptoValue \in {totalValue(Zero, q.positions, prices, 1, conv) :
                                            conv \in IntConversions},
                   buyCount \in {countBuys(states)},
                   lotSize \in {chooseLotSize(lotSizes, q.ticker)} :
                \E a \in {LET availableFunds == RAdd(q.spotBalance, totalCryptoValue)
                          IN  allocate(q.signal, q.cur, q.spotBalance, availableFunds,
                                       buyCount, q.price)} :
                \E q1 \in {[q EXCEPT !.queried = TRUE,
                                     !.vprices = prices,
                                     !.totalCryptoValue = totalCryptoValue,
                                     !.buyCount = buyCount, !.lotSize = lotSize,
                                     !.size = a.size, !.raw = a.size,
                                     !.targetPos = a.targetPos, !.branch = a.branch]} :
                  run' = [run EXCEPT ![r] =
                            IF a.branch = "excess" THEN [q1 EXCEPT !.pc = "excess"]
                            ELSE IF q.signal = "buy" THEN [q1 EXCEPT !.pc = "buy"]
                            ELSE IF a.branch = "sell" THEN [q1 EXCEPT !.pc = "sell"]
                            ELSE AfterOrders(q1)]
    /\ mu' = Unlock(r)
    /\ UNCHANGED <<phase, states, transactions, accountValues, lotSizes, early, inbox,
                   orders, before, retries>>
    /\ UNCHANGED sub

\* one call of client.PlaceOrder by run r and the statements that follow it
\* up to the end of the branch: the history entry, the Transaction on success
Order(r, q, side, size, next) ==
    \E sz \in {formattedSize(size, q.lotSize)},
       priceResp \in PriceResponses(q.ticker), orderResp \in OrderResponses :
      \E res \in {PlaceOrder(q.ticker, side, sz, priceResp, orderResp)} :
      \E q1 \in {[q EXCEPT !.submitted = IF res.submitted THEN @ + 1 ELSE @,
                           !.recorded = IF res.kind = "ok" THEN @ + 1 ELSE @]} :
      LET usdtValue == RMul(size, q.price)
      IN  /\ orders' = Append(orders, OrderEntry(r, q.ticker, side, size, q.lotSize,
                                                 res, orderResp))
          /\ transactions' =
               IF res.kind = "ok"
               THEN RecordTransaction(transactions, q.ticker, side, size, q.price,
                                      usdtValue, Len(orders) + 1)
               ELSE transactions
          /\ run' = [run EXCEPT ![r] =
                       IF res.kind = "panic" THEN Exit(q1, "panic")
                       ELSE IF res.kind = "ok"
                       THEN IF next = "after"
                            THEN AfterOrders([q1 EXCEPT !.err = FALSE, !.orderPlaced = TRUE])
                            ELSE [q1 EXCEPT !.err = FALSE, !.orderPlaced = TRUE,
                                            !.pc = next]
                       ELSE IF next = "after"
                            THEN AfterOrders([q1 EXCEPT !.err = TRUE])
                            ELSE [q1 EXCEPT !.err = TRUE, !.pc = next]]

\* the buy branch's sale of the excess over the target position
ExcessSell(r) ==
    /\ phase = "serving"
    /\ run[r].pc = "excess"
    /\ Order(r, run[r], "sell", run[r].size, "buy")
    /\ mu' = Unlock(r)
    /\ UNCHANGED <<phase, states, accountValues, lotSizes, early, inbox, before, retries>>
    /\ UNCHANGED sub

\* the buy branch without its test of the funds
insufficientFunds_unchecked(usdtValue, spotBalance) == FALSE

\* usdtValue > spotBalance: the order would cost more than the balance read
insufficientFunds(usdtValue, spotBalance) == RGt(usdtValue, spotBalance)

\* the buy branch from the minimum order value to the test before the order,
\* for every size the normalization may give: [kind, size], kind "funds" or
\* "invalid" for the two refusals, "order" when the buy is to be placed, "none"
\* when the size is not above 0
buyOrder(size0, price, lotSize, spotBalance) ==
    {IF insufficientFunds(RMul(size, price), spotBalance)
     THEN [kind |-> "funds", size |-> size]
     ELSE IF notMultiple(size, lotSize) THEN [kind |-> "invalid", size |-> size]
     ELSE IF RGt(size, Zero) THEN [kind |-> "order", size |-> size]
     ELSE [kind |-> "none", size |-> size] :
       size \in normalize(size0, price, lotSize)}

\* the sell branch from the minimum order value to the sell order, for every
\* size the normalization may give: [kind, size], kind "invalid" for the
\* refusal, "order" when the sell is to be placed
sellOrder(size0, price, lotSize) ==
    {IF notMultiple(size, lotSize) THEN [kind |-> "invalid", size |-> size]
     ELSE [kind |-> "order", size |-> size] :
       size \in normalize(size0, price, lotSize)}

\* the buy branch from the minimum order value to the buy order
Buy(r) ==
    /\ phase = "serving"
    /\ run[r].pc = "buy"
    /\ \E b \in buyOrder(run[r].size, run[r].price, run[r].lotSize, run[r].spotBalance) :
       LET q == [run[r] EXCEPT !.size = b.size]
       IN  IF b.kind \in {"funds", "invalid"}
           THEN /\ run' = [run EXCEPT ![r] =
                             Fail(q, IF b.kind = "funds"
                                     THEN "Insufficient funds"
                                     ELSE "Invalid order size")]
                /\ UNCHANGED <<orders, transactions>>
           ELSE IF b.kind = "order"
           THEN Order(r, q, "buy", b.size, "after")
           ELSE /\ run' = [run EXCEPT ![r] = AfterOrders(q)]
                /\ UNCHANGED <<orders, transactions>>
    /\ mu' = Unlock(r)
    /\ UNCHANGED <<phase, states, accountValues, lotSizes, early, inbox, before, retries>>
    /\ UNCHANGED sub

\* the sell branch for a stored position above zero
Sell(r) ==
    /\ phase = "serving"
    /\ run[r].pc = "sell"
    /\ \E s \in sellOrder(run[r].size, run[r].price, run[r].lotSize) :
       LET q == [run[r] EXCEPT !.size = s.size]
       IN  IF s.kind = "invalid"
           THEN /\ run' = [run EXCEPT ![r] = Fail(q, "Invalid order size")]
                /\ UNCHANGED <<orders, transactions>>
           ELSE Order(r, q, "sell", s.size, "after")
    /\ mu' = Unlock(r)
    /\ UNCHANGED <<phase, states, accountValues, lotSizes, early, inbox, before, retries>>
    /\ UNCHANGED sub

\* after an accepted order: positions are queried again and the state row is updated
Repositions(r) ==
    /\ phase = "serving"
    /\ run[r].pc = "repositions"
    /\ \E resp \in PositionsResponses :
         \E q \in {[run[r] EXCEPT !.queried = TRUE]}, p \in {GetPositions(resp)} :
             IF p.kind = "panic"
             THEN /\ run' = [run EXCEPT ![r] = Exit(q, "panic")]
                  /\ UNCHANGED states
             ELSE IF p.kind = "err"
             THEN /\ run' = [run EXCEPT ![r] =
                               [q EXCEPT !.positions = NoPositions, !.pc = "sample"]]
                  /\ UNCHANGED states
             ELSE /\ states' = UpdateState(states, q.ticker, q.signal,
                                           Holding(p.positions, q.ticker))
                  /\ run' = [run EXCEPT ![r] =
                               [q EXCEPT !.positions = p.positions, !.updated = TRUE,
                                         !.pc = "sample"]]
    /\ mu' = Unlock(r)
    /\ UNCHANGED <<phase, transactions, accountValues, lotSizes, early, inbox, orders,
                   before, retries>>
    /\ UNCHANGED sub

\* the balance is queried again and the account value is recorded; the price
\* queries of the pairs held are answered from PriceAnswers, a set of answers
\* for each pair
SampleWith(r, PriceAnswers) ==
    /\ phase = "serving"
    /\ run[r].pc = "sample"
    /\ LET q == run[r]
           held == {t \in DOMAIN q.positions : contains(defaultPairs, t)}
       IN  \E resp \in BalanceResponses,
              presp \in [held -> UNION {PriceAnswers[t] : t \in held}] :
             /\ \A t \in held : presp[t] \in PriceAnswers[t]
             /\ \E b \in {GetSpotBalance(resp)} :
                IF b.kind = "panic"
                THEN /\ run' = [run EXCEPT ![r] =
                                  Exit([q EXCEPT !.queried = TRUE], "panic")]
                     /\ UNCHANGED accountValues
                ELSE \E totalAccountValue \in
                          {totalValue(b.v, q.positions,
                                      [t \in held |-> getCurrentPrice(presp[t])], 1, conv) :
                             conv \in IntConversions} :
                       /\ accountValues' =
                            RecordAccountValue(accountValues, totalAccountValue, r)
                       /\ run' = [run EXCEPT ![r] =
                                    Exit([q EXCEPT !.queried = TRUE], "200")]
    /\ mu' = Unlock(r)
    /\ UNCHANGED <<phase, states, transactions, lotSizes, early, inbox, orders, before,
                   retries>>
    /\ UNCHANGED sub

\* the account sample with every answer a price query may get
Sample(r) ==
    SampleWith(r, [t \in {defaultPairs[i] : i \in DOMAIN defaultPairs} |-> PriceResponses(t)])

Next ==
    \/ InitDB
    \/ FetchLotSizes
    \/ Receive
    \/ \E r \in Runs :
         \/ Lock(r)
         \/ Dedup(r)
         \/ Balance(r)
         \/ OpenOrders(r)
         \/ Positions(r)
         \/ Price(r)
         \/ Allocate(r)
         \/ ExcessSell(r)
         \/ Buy(r)
         \/ Sell(r)
         \/ Repositions(r)
         \/ Sample(r)

Spec == Init /\ [][Next]_vars

(***************************************************************************)
(* Properties.                                                             *)
(***************************************************************************)
\* the run that took the mutex last; orders and before belong to it
Latest == Started

\* the answer of an order the exchange accepted: HTTP 200, code 0, sCode 0
AcceptedAnswer(resp) ==
    /\ resp.status = 200
    /\ resp.code = "0"
    /\ Len(resp.data) > 0
    /\ resp.data[1].sCode = "0"

\* the tables are as the latest run found them
StoreUntouched ==
    /\ states = before.states
    /\ transactions = before.transactions
    /\ accountValues = before.accountValues

\* the Transaction rows the latest run has recorded
NewRows == (Len(before.transactions) + 1) .. Len(transactions)

\* C2: a run whose alert carries the signal the instrument's row already holds
\* goes from the read of the row straight to its answer: it submits no order,
\* records no Transaction and no account value, leaves every row of states as
\* it was, has made no query to the exchange, and answers 200.
C2_DedupNoEffect ==
    \A r \in Runs :
        (r = Latest /\ GetState(before.states, run[r].ticker).signal = run[r].signal)
        => /\ run[r].pc \in {"state", "done"}
           /\ orders = <<>>
           /\ run[r].submitted = 0
           /\ StoreUntouched
           /\ ~run[r].queried
           /\ run[r].pc = "done" => run[r].status = "200" /\ run[r].dedup

C2_Witness ==
    \E r \in Runs :
        /\ r = Latest
        /\ run[r].pc = "done"
        /\ run[r].dedup
        /\ run[r].signal = "buy"
        /\ GetState(before.states, run[r].ticker).signal = "buy"
        /\ transactions # <<>>

\* C3: at most one run is inside the section guarded by mu, from the read of
\* the instrument's row to the handler's return, and that run holds mu; so no
\* run reads a row while another is between its order and its state update.
C3_MutualExclusion ==
    /\ Cardinality({r \in Runs : run[r].pc \in Critical}) <= 1
    /\ \A r \in Runs : run[r].pc \in Critical => mu = r
    /\ \A r, q \in Runs :
         (r # q /\ run[r].pc \in {"repositions", "sample"}) => run[q].pc # "state"

C3_Witness ==
    \E r \in Runs :
        /\ run[r].pc = "repositions"
        /\ mu = r
        /\ Len(inbox) >= 1
        /\ inbox[1].ticker = run[r].ticker

\* C4: every Transaction row a run records is the row of one call of
\* PlaceOrder of that run, for the same ticker, side and size, whose order
\* request was sent and answered with HTTP 200, code 0 and sCode 0; rows found
\* at the start of the run stay as they were.
C4_TransactionsAccepted ==
    /\ Len(transactions) >= Len(before.transactions)
    /\ SubSeq(transactions, 1, Len(before.transactions)) = before.transactions
    /\ \A i \in NewRows :
         /\ transactions[i].ord \in DOMAIN orders
         /\ LET row == transactions[i]
                o == orders[row.ord]
            IN  /\ o.submitted
                /\ AcceptedAnswer(o.resp)
                /\ o.ticker = row.ticker
                /\ o.side = row.signal
                /\ o.size = row.amount
    /\ \A i, j \in NewRows : transactions[i].ord = transactions[j].ord => i = j

C4_Witness ==
    /\ Len(orders) = 2
    /\ orders[1].submitted
    /\ ~AcceptedAnswer(orders[1].resp)
    /\ AcceptedAnswer(orders[2].resp)
    /\ Len(transactions) = Len(before.transactions) + 1
    /\ transactions[Len(transactions)].ord = 2

\* C5: a row of states changes its signal or position only in the step of a
\* run that holds mu, has had an order for that ticker accepted, and is at the
\* state update after its orders; no other step changes a row.
C5_StateChangesOnlyAfterAcceptedOrder ==
    [][\A i \in DOMAIN states :
          (i \in DOMAIN states' /\ states'[i] # states[i])
          => \E r \in Runs :
                /\ mu = r
                /\ run[r].pc = "repositions"
                /\ run[r].ticker = states[i].ticker
                /\ states'[i].ticker = states[i].ticker
                /\ \E k \in DOMAIN orders :
                     /\ orders[k].ticker = states[i].ticker
                     /\ orders[k].kind = "ok"
                     /\ AcceptedAnswer(orders[k].resp)]_vars

C5_Witness ==
    \E r \in Runs :
        /\ r = Latest
        /\ run[r].pc = "sample"
        /\ run[r].updated
        /\ states # before.states
        /\ \E k \in DOMAIN orders : AcceptedAnswer(orders[k].resp)

\* C6: once InitDB has run, states holds exactly one row for every configured
\* pair and no row for another ticker; InitDB keeps every row it finds, in
\* place, and the rows it adds are seed rows (sell, 0) of pairs that had none.
C6_OneRowPerInstrument ==
    /\ phase # "start" =>
         /\ \A i \in DOMAIN defaultPairs : CountRows(states, defaultPairs[i]) = 1
         /\ \A i \in DOMAIN states : contains(defaultPairs, states[i].ticker)
    /\ (phase # "start" /\ Started = 0) =>
         /\ Len(states) >= Len(before.states)
         /\ \A i \in DOMAIN before.states : states[i] = before.states[i]
         /\ \A i \in DOMAIN states \ DOMAIN before.states :
              /\ states[i].signal = "sell"
              /\ states[i].position = Zero
              /\ CountRows(before.states, states[i].ticker) = 0

C6_Witness ==
    /\ phase = "dbready"
    /\ before.states # <<>>
    /\ states = before.states
    /\ \E i \in DOMAIN states : states[i].signal = "buy"

\* the pairs whose row holds the signal buy
OpenBuys == {i \in DOMAIN states : states[i].signal = "buy"}

\* the holdings a run was told of, valued at the prices it fetched for them
\* and summed in the order of the pairs
RECURSIVE HoldingsValue(_, _, _)
HoldingsValue(positions, prices, pairs) ==
    IF pairs = <<>> THEN Zero
    ELSE LET front == HoldingsValue(positions, prices, SubSeq(pairs, 1, Len(pairs) - 1))
             pair == pairs[Len(pairs)]
         IN  IF pair \in DOMAIN positions
             THEN RAdd(front, RMul(positions[pair], prices[pair]))
             ELSE front

\* the balance plus the valued holdings of run r, and its equal-split target
Funds(r) ==
    RAdd(run[r].spotBalance, HoldingsValue(run[r].positions, run[r].vprices, defaultPairs))

Target(r) ==
    RDiv(RDiv(Funds(r), Rat(Cardinality(OpenBuys) + 1, 1)), run[r].price)

\* the last entry of a non-empty sequence
Last(seq) == seq[Len(seq)]

\* C1 as stated: whenever two runs in a row handle the same ticker and the
\* same signal, buy or sell, the two together submit exactly one order and
\* record exactly one Transaction, and the second answers 200 and leaves the
\* three tables as it found them.
C1_TwiceInARow ==
    \A r \in Runs :
        (/\ r >= 2
         /\ r = Latest
         /\ run[r].pc = "done"
         /\ run[r].ticker = run[r - 1].ticker
         /\ run[r].signal = run[r - 1].signal
         /\ run[r].signal \in {"buy", "sell"})
        => /\ run[r - 1].submitted + run[r].submitted = 1
           /\ run[r - 1].recorded + run[r].recorded = 1
           /\ run[r].status = "200"
           /\ StoreUntouched

\* C1, amended: when two runs in a row handle the same ticker and signal and
\* the first has updated the instrument's row (an order of it was accepted and
\* its positions query succeeded), the second submits no order, leaves the
\* three tables as it found them and answers 200; the orders of the two runs
\* are those of the first: one, or two when it is a buy that sends a sell of
\* the excess before its buy, with at least one Transaction and at most one
\* per order.
C1_RepeatAfterUpdate ==
    \A r \in Runs :
        (/\ r >= 2
         /\ r = Latest
         /\ run[r].ticker = run[r - 1].ticker
         /\ run[r].signal = run[r - 1].signal
         /\ run[r].signal \in {"buy", "sell"}
         /\ run[r - 1].updated)
        => /\ run[r].pc \in {"state", "done"}
           /\ run[r].submitted = 0
           /\ run[r].recorded = 0
           /\ orders = <<>>
           /\ StoreUntouched
           /\ run[r].pc = "done" => run[r].status = "200"
           /\ run[r - 1].submitted \in {1, 2}
           /\ run[r - 1].submitted = 2 => run[r].signal = "buy"
           /\ run[r - 1].recorded >= 1
           /\ run[r - 1].recorded <= run[r - 1].submitted

C1_Witness ==
    \E r \in Runs :
        /\ r >= 2
        /\ r = Latest
        /\ run[r].pc = "done"
        /\ run[r].ticker = run[r - 1].ticker
        /\ run[r].signal = run[r - 1].signal
        /\ run[r].signal = "sell"
        /\ run[r - 1].updated
        /\ run[r - 1].recorded = 1
        /\ run[r].status = "200"

\* C7: a buy that finds no row with the signal buy enters the normalization
\* with size = balance / price; with balance 100, price 10 and lot size 0.1
\* the order it sends is a buy of 10, written 10 on the wire, and the
\* Transaction recorded for it has amount 10 and value 100.
C7_FirstBuyAllFunds ==
    [][\A r \in Runs :
          (/\ run[r].pc = "buy"
           /\ run[r].signal = "buy"
           /\ OpenBuys = {})
          => /\ run[r].size = RDiv(run[r].spotBalance, run[r].price)
             /\ orders = <<>>
             /\ (/\ run[r].spotBalance = Rat(100, 1)
                 /\ run[r].price = Rat(10, 1)
                 /\ run[r].lotSize = Rat(1, 10)
                 /\ orders' # orders)
                => /\ Last(orders').side = "buy"
                   /\ Last(orders').size = Rat(10, 1)
                   /\ Last(orders').sz = "10.000000"
                   /\ transactions' # transactions
                      => /\ Last(transactions').signal = "buy"
                         /\ Last(transactions').amount = Rat(10, 1)
                         /\ Last(transactions').usdtValue = Rat(100, 1)]_vars

C7_Witness ==
    \E r \in Runs :
        /\ run[r].pc = "repositions"
        /\ run[r].signal = "buy"
        /\ \A i \in DOMAIN before.states : before.states[i].signal # "buy"
        /\ Len(orders) = 1
        /\ orders[1].side = "buy"
        /\ orders[1].size = Rat(10, 1)
        /\ orders[1].lotSize = Rat(1, 10)
        /\ AcceptedAnswer(orders[1].resp)
        /\ transactions # before.transactions
        /\ Last(transactions).usdtValue = Rat(100, 1)
        /\ \E i \in DOMAIN before.states : before.states[i].position # Zero

\* C8: a buy that finds N >= 1 rows with the signal buy and a stored position
\* of 0 for its own ticker enters the normalization with
\* size = (balance + sum of holding x price over the pairs) / (N + 1) / price,
\* each holding valued at the price the run fetched for it, which is the
\* quoted price or 0.
C8_EqualSplit ==
    \A r \in Runs :
        (/\ run[r].pc = "buy"
         /\ run[r].signal = "buy"
         /\ Cardinality(OpenBuys) >= 1
         /\ run[r].cur.position = Zero)
        => /\ run[r].size = Target(r)
           /\ \A t \in DOMAIN run[r].vprices :
                run[r].vprices[t] \in {Zero, ParseFloat(Quote(t)).v}

C8_Witness ==
    \E r \in Runs :
        /\ run[r].pc = "buy"
        /\ run[r].signal = "buy"
        /\ Cardinality(OpenBuys) = 2
        /\ run[r].cur.position = Zero
        /\ run[r].spotBalance = Rat(100, 1)
        /\ HoldingsValue(run[r].positions, run[r].vprices, defaultPairs) = Rat(120, 1)
        /\ run[r].size = Rat(55, 3)

\* C9 as stated: a buy that finds N >= 1 rows with the signal buy and a stored
\* position above its target sends one sell of exactly position - target, and
\* the run sends no buy order.
C9_ExcessSellOnly ==
    \A r \in Runs :
        (r = Latest /\ run[r].signal = "buy")
        => /\ (/\ run[r].pc = "buy"
               /\ Cardinality(OpenBuys) >= 1
               /\ RGt(run[r].cur.position, Target(r)))
              => /\ Len(orders) = 1
                 /\ orders[1].side = "sell"
                 /\ orders[1].size = RSub(run[r].cur.position, Target(r))
           /\ (\E i \in DOMAIN orders : orders[i].side = "sell")
              => \A i \in DOMAIN orders : orders[i].side # "buy"

\* C10 as stated: a buy that finds N >= 1 rows with the signal buy and a stored
\* position not above its target enters the normalization with the full
\* target position as its size.
C10_BuyFullTarget ==
    \A r \in Runs :
        (/\ run[r].pc = "buy"
         /\ run[r].signal = "buy"
         /\ Cardinality(OpenBuys) >= 1
         /\ ~RGt(run[r].cur.position, Target(r)))
        => run[r].size = Target(r)

\* the row of a ticker as the latest run found it
Was(ticker) == GetState(before.states, ticker)

\* the row of a ticker now
Row(ticker) == GetState(states, ticker)

\* the whole numbers next to size / lot
LotCounts(size, lot) ==
    LET q == RDiv(size, lot)
        whole == RSub(q, RMod1(q))
    IN  {RAdd(whole, Rat(d, 1)) : d \in {-1, 0, 1}}

\* size is a whole number of lots: that number times lot, as float64 multiplies
WholeLots(size, lot) == \E k \in LotCounts(size, lot) : RMul(k, lot) = size

\* the holding of a run's ticker in the positions its last query returned
Reported(r) ==
    IF run[r].ticker \in DOMAIN run[r].positions
    THEN run[r].positions[run[r].ticker]
    ELSE Zero

\* size is raw, raised to the minimum order value at the quoted price, rounded
\* down to a whole number of lots
IsNormalized(size, raw, ticker, lot) ==
    LET floor == RDiv(minOrderValueUSDT, ParseFloat(Quote(ticker)).v)
        raised == IF RLt(raw, floor) THEN floor ELSE raw
    IN  \E k \in LotCounts(size, lot) :
            /\ RMul(k, lot) = size
            /\ ~RGt(size, raised)
            /\ RGt(RMul(RAdd(k, Rat(1, 1)), lot), raised)

\* the latest run handles a sell for a row that held (buy, p) with p > 0
SellsOpenPosition(r) ==
    /\ r = Latest
    /\ run[r].signal = "sell"
    /\ Was(run[r].ticker).signal = "buy"
    /\ RGt(Was(run[r].ticker).position, Zero)

\* C11 as stated: a sell for a row holding (buy, p), p > 0, that is answered
\* with success has sent exactly one sell order of p normalized, and the row
\* holds (sell, 0).
C11_SellStoresZero ==
    \A r \in Runs :
        (SellsOpenPosition(r) /\ run[r].pc = "done" /\ run[r].status = "200")
        => /\ Len(orders) = 1
           /\ orders[1].side = "sell"
           /\ IsNormalized(orders[1].size, Was(run[r].ticker).position, run[r].ticker,
                           orders[1].lotSize)
           /\ Row(run[r].ticker).signal = "sell"
           /\ Row(run[r].ticker).position = Zero

\* C11: a sell for a row holding (buy, p), p > 0, sends at most one order, a
\* sell of p normalized for the alert's ticker; once that order is accepted and
\* positions were queried again, the row holds the signal sell and the holding
\* that query reported for the ticker (0 when it reported none), or still
\* (buy, p) when that query failed.
C11_SellStoresReported ==
    \A r \in Runs :
        SellsOpenPosition(r)
        => /\ Len(orders) <= 1
           /\ \A i \in DOMAIN orders :
                /\ orders[i].side = "sell"
                /\ orders[i].ticker = run[r].ticker
                /\ orders[i].lotSize = chooseLotSize(lotSizes, run[r].ticker)
                /\ IsNormalized(orders[i].size, Was(run[r].ticker).position,
                                run[r].ticker, orders[i].lotSize)
           /\ run[r].pc = "sample"
              => /\ Len(orders) = 1
                 /\ AcceptedAnswer(orders[1].resp)
                 /\ Row(run[r].ticker) =
                      IF run[r].updated
                      THEN [ok |-> TRUE, signal |-> "sell", position |-> Reported(r)]
                      ELSE Was(run[r].ticker)
           /\ (run[r].pc = "done" /\ run[r].status = "200")
              => /\ Len(orders) = 1
                 /\ AcceptedAnswer(orders[1].resp)
                 /\ run[r].updated => Row(run[r].ticker).signal = "sell"
                 /\ ~run[r].updated => Row(run[r].ticker) = Was(run[r].ticker)

\* a sell of a stored 16 was accepted and the query after it still reports 16
C11_Witness ==
    \E r \in Runs :
        /\ SellsOpenPosition(r)
        /\ run[r].pc = "sample"
        /\ run[r].updated
        /\ Was(run[r].ticker).position = Rat(16, 1)
        /\ orders[1].size = Rat(16, 1)
        /\ Reported(r) = Rat(16, 1)
        /\ Row(run[r].ticker) = [ok |-> TRUE, signal |-> "sell", position |-> Rat(16, 1)]

\* the messages of the errors that come from the exchange's answers before the
\* size computation: a failed query, or open orders
QueryErrors ==
    {"Failed to get balance", "Failed to check open orders", "Open orders exist",
     "Failed to get positions", "Failed to get price"}

\* C12 as stated: a sell for a row whose stored position is 0 sends no order,
\* writes no Transaction, state or sample, and is answered with success; the
\* answers that report a failed query or open orders are left aside.
C12_SellOfNothing ==
    \A r \in Runs :
        (/\ r = Latest
         /\ run[r].signal = "sell"
         /\ run[r].pc = "done"
         /\ Was(run[r].ticker).ok
         /\ Was(run[r].ticker).position = Zero)
        => /\ orders = <<>>
           /\ StoreUntouched
           /\ (run[r].status # "panic" /\ run[r].msg \notin QueryErrors)
              => run[r].status = "200"

\* the entry a step adds to the order history
Placed == orders'[Len(orders')]

\* run r takes its normalization step and the step ends with a submission
Normalizes(r) ==
    /\ run[r].pc \in {"buy", "sell"}
    /\ Len(orders') = Len(orders) + 1
    /\ Placed.submitted

\* size is the largest multiple of lot that does not exceed raw
IsLargestMultiple(size, raw, lot) ==
    \E k \in LotCounts(size, lot) :
        /\ RMul(k, lot) = size
        /\ ~RGt(size, raw)
        /\ RGt(RMul(RAdd(k, Rat(1, 1)), lot), raw)

\* C13 as stated: every size submitted by the normalization of the buy and
\* sell paths is the largest multiple of the lot step not exceeding the raw
\* size, and its notional size x price is at least the minimum order value;
\* otherwise nothing is submitted.
C13_NormalizedSize ==
    [][\A r \in Runs :
         Normalizes(r)
         => /\ IsLargestMultiple(Placed.size, run[r].raw, Placed.lotSize)
            /\ ~RLt(RMul(Placed.size, run[r].price), minOrderValueUSDT)]_vars

\* C14: every buy order the handler submits costs, at the run's price, no more
\* than the balance the run read; a buy whose normalized size costs more is
\* answered with the error "Insufficient funds" and no order is sent for it.
C14_BuyWithinBalance ==
    [][\A r \in Runs :
         /\ (/\ run[r].pc = "buy"
             /\ Len(orders') = Len(orders) + 1
             /\ Placed.submitted)
            => /\ Placed.side = "buy"
               /\ ~RGt(RMul(Placed.size, run[r].price), run[r].spotBalance)
         /\ (/\ run[r].pc = "buy"
             /\ run'[r] # run[r]
             /\ \A size \in normalize(run[r].size, run[r].price, run[r].lotSize) :
                  RGt(RMul(size, run[r].price), run[r].spotBalance))
            => /\ run'[r].pc = "done"
               /\ run'[r].status = "500"
               /\ run'[r].msg = "Insufficient funds"
               /\ orders' = orders
               /\ transactions' = transactions]_vars

\* after an accepted first buy, a second buy whose equal share costs more than
\* the balance was refused
C14_Witness ==
    /\ run[1].signal = "buy"
    /\ run[1].recorded = 1
    /\ run[2].signal = "buy"
    /\ run[2].pc = "done"
    /\ run[2].msg = "Insufficient funds"
    /\ orders = <<>>

\* C15: a buy whose balance query reports less than the floor of 28.77 is
\* answered with the error "Insufficient available balance" at that step: the
\* run has made no other query, computed nothing and sent no order, and the
\* tables are as it found them; a buy passes the step only with a balance at
\* or above the floor.
C15_BalanceFloor ==
    [][\A r \in Runs :
         (run[r].pc = "balance" /\ run[r].signal = "buy" /\ run'[r] # run[r])
         => /\ run'[r].pc \in {"openorders", "done"}
            /\ run'[r].pc = "openorders" => ~RLt(run'[r].spotBalance, BalanceFloor)
            /\ run'[r].msg = "Insufficient available balance"
               => /\ run'[r].pc = "done"
                  /\ run'[r].status = "500"
            /\ run'[r].pc = "done"
               => /\ run'[r].status \in {"500", "panic"}
                  /\ run'[r].submitted = 0
                  /\ run'[r].price = Zero
                  /\ run'[r].size = Zero
            /\ orders' = <<>>
            /\ states' = before.states
            /\ transactions' = before.transactions
            /\ accountValues' = before.accountValues]_vars

\* a buy was refused for a balance below the floor
C15_Witness ==
    \E r \in Runs :
        /\ r = Latest
        /\ run[r].signal = "buy"
        /\ run[r].pc = "done"
        /\ run[r].status = "500"
        /\ run[r].msg = "Insufficient available balance"
        /\ orders = <<>>
        /\ StoreUntouched

\* run r was stopped by the pending orders: it ended with the error
\* "Open orders exist", sent no order and wrote nothing
Blocked(r) ==
    /\ run[r].pc = "done"
    /\ run[r].status = "500"
    /\ run[r].msg = "Open orders exist"
    /\ run[r].submitted = 0
    /\ run[r].recorded = 0
    /\ ~run[r].updated
    /\ \A i \in DOMAIN orders : orders[i].rid # r
    /\ r = Latest => (orders = <<>> /\ StoreUntouched)

\* C16: a run whose open-orders query lists a pending order ends at that step
\* with an error, having sent no order and changed no states, transactions or
\* account-value row; the alert is not put back in the queue, and the run
\* does nothing afterwards.
C16_OpenOrdersBlock ==
    [][\A r \in Runs :
         run'[r].openSeen
         => /\ Blocked(r)'
            /\ ~run[r].openSeen => inbox' = inbox
            /\ run[r].openSeen => run'[r] = run[r]]_vars

\* a run was stopped by a pending order
C16_Witness ==
    \E r \in Runs :
        /\ r = Latest
        /\ run[r].openSeen
        /\ Blocked(r)

\* C17 as stated: a request whose body is malformed JSON or names a ticker
\* outside the configured list is answered with an error before mu.Lock(), so
\* every alert that waits for the mutex came in a well-formed body and names
\* a configured ticker.
C17_RejectedBeforeLock ==
    \A i \in DOMAIN inbox :
        /\ inbox[i].rest = ""
        /\ isValidTicker(inbox[i].ticker)

\* the i-th order of the latest run reached the exchange and was not accepted
Rejected(i) == orders[i].submitted /\ ~AcceptedAnswer(orders[i].resp)

\* C18 as stated: a run one of whose orders the exchange did not accept (HTTP
\* status other than 200, envelope code other than 0, or sCode other than 0)
\* is not answered with success, records no Transaction for that order and
\* leaves the states table unchanged.
C18_RejectionSurfaced ==
    \A r \in Runs :
        (r = Latest /\ run[r].pc = "done")
        => \A i \in DOMAIN orders :
             Rejected(i)
             => /\ run[r].status # "200"
                /\ states = before.states
                /\ \A k \in NewRows : transactions[k].ord # i

\* C19 as stated: when the positions query after an accepted order has failed,
\* the Transaction of the order stays recorded, the row of the ticker keeps the
\* signal and position it had before the order, and the handler answers with
\* success.
C19_StaleAfterFailedQuery ==
    [][\A r \in Runs :
         (run[r].pc = "sample" /\ ~run[r].updated /\ run'[r] # run[r])
         => /\ NewRows # {}
            /\ transactions' = transactions
            /\ Row(run[r].ticker)' = Was(run[r].ticker)
            /\ run'[r].pc = "done"
            /\ run'[r].status = "200"]_vars

\* C20: once an order of the latest run was accepted and the positions query
\* after it has succeeded, the row of the alert's ticker holds the alert's
\* signal and the holding that query reported for the ticker, whatever size
\* was ordered, and every other row is as the run found it.
C20_RowFromQuery ==
    \A r \in Runs :
        (r = Latest /\ run[r].updated)
        => /\ \E i \in DOMAIN orders : AcceptedAnswer(orders[i].resp)
           /\ DOMAIN states = DOMAIN before.states
           /\ \A i \in DOMAIN states :
                IF states[i].ticker = run[r].ticker
                THEN /\ states[i].signal = run[r].signal
                     /\ run[r].pc = "sample" => states[i].position = Reported(r)
                ELSE states[i] = before.states[i]

\* a buy of 10 was accepted, the query after it reports a holding of 8, and
\* the row holds 8
C20_Witness ==
    \E r \in Runs :
        /\ r = Latest
        /\ run[r].updated
        /\ run[r].pc = "sample"
        /\ run[r].signal = "buy"
        /\ Len(orders) = 1
        /\ orders[1].size = Rat(10, 1)
        /\ Reported(r) = Rat(8, 1)
        /\ Row(run[r].ticker) = [ok |-> TRUE, signal |-> "buy", position |-> Rat(8, 1)]
        /\ Was(run[r].ticker) = [ok |-> TRUE, signal |-> "sell", position |-> Zero]

\* the latest run has answered 200 to an alert whose signal differed from the
\* signal its ticker's row held
AnsweredNewSignal(r) ==
    /\ r = Latest
    /\ run[r].pc = "done"
    /\ run[r].status = "200"
    /\ Was(run[r].ticker).ok
    /\ Was(run[r].ticker).signal # run[r].signal

\* C21 as stated: whenever the handler answers 200 to an alert whose signal
\* differs from the stored one, the row of the ticker afterwards holds the
\* alert's signal.
C21_SuccessStoresSignal ==
    \A r \in Runs :
        (AnsweredNewSignal(r) /\ run[r].signal \in {"buy", "sell"})
        => Row(run[r].ticker).signal = run[r].signal

\* C21: whenever the handler answers 200 to an alert whose signal differs from
\* the stored one, the row of the ticker afterwards holds the alert's signal
\* if an order of the run was accepted and the positions query after it
\* succeeded, and the signal it held before otherwise.
C21_SuccessStoresSignalAfterUpdate ==
    \A r \in Runs :
        AnsweredNewSignal(r)
        => /\ run[r].updated => /\ Row(run[r].ticker).signal = run[r].signal
                                /\ run[r].recorded >= 1
           /\ ~run[r].updated => Row(run[r].ticker) = Was(run[r].ticker)

\* a buy for a row holding sell was answered 200 after its update
C21_Witness ==
    \E r \in Runs :
        /\ AnsweredNewSignal(r)
        /\ run[r].updated
        /\ run[r].signal = "buy"
        /\ Was(run[r].ticker).signal = "sell"
        /\ Row(run[r].ticker).signal = "buy"

\* the latest run has answered 200 to a buy or sell that was not a duplicate
ProcessedToSuccess(r) ==
    /\ r = Latest
    /\ run[r].pc = "done"
    /\ run[r].status = "200"
    /\ ~run[r].dedup
    /\ run[r].signal \in {"buy", "sell"}

\* seq is tbl with one more row at its end
OneMore(seq, tbl) == Len(seq) = Len(tbl) + 1 /\ SubSeq(seq, 1, Len(tbl)) = tbl

\* the price the exchange quotes for each pair, as a number
QuotedPrices ==
    [i \in DOMAIN defaultPairs |->
        getCurrentPrice(Http(200, "0", <<[last |-> Quote(defaultPairs[i])]>>))]

Quoted(ticker) == QuotedPrices[CHOOSE i \in DOMAIN defaultPairs : defaultPairs[i] = ticker]

\* the balances the exchange may report, as numbers, and 0 for a failed query
SampleBalances == {Zero, Rat(20, 1), Rat(100, 1)}

\* the account values that can be computed from the holdings of a positions
\* query: a balance the exchange may report, or 0 for a failed query, plus
\* each holding at its quoted price, or at 0 for a failed price query
SampleValuesOf(positions) ==
    {RAdd(b, HoldingsValue(positions,
                           [t \in DOMAIN positions |-> IF t \in unpriced THEN Zero
                                                       ELSE Quoted(t)],
                           defaultPairs)) :
       b \in SampleBalances, unpriced \in SUBSET DOMAIN positions}

\* the holdings a positions query of the model may report, none for a failed one
ReportedHoldings == {GetPositions(resp).positions : resp \in PositionsResponses}

SampleValues == [positions \in ReportedHoldings |-> SampleValuesOf(positions)]

\* v is an account value run r can compute from its positions
IsSampleValue(v, r) ==
    IF run[r].positions \in ReportedHoldings THEN v \in SampleValues[run[r].positions]
    ELSE v \in SampleValuesOf(run[r].positions)

\* C22 as stated: every buy or sell that is answered 200 without being a
\* duplicate has appended exactly one account-value sample.
C22_SamplePerSuccess ==
    \A r \in Runs :
        ProcessedToSuccess(r) => OneMore(accountValues, before.accountValues)

\* C22: a run appends exactly one account-value sample when it is answered 200
\* after an accepted order, and none in every other case; the sample is the
\* balance plus the holdings at their prices, taken from the queries made
\* after the order, a failed query counting as 0 or as no holdings; every
\* step leaves the earlier samples as they were, in their order, and a new
\* sample comes last and carries the number of the run that holds the mutex.
C22_SampleAfterOrder ==
    [][/\ \/ accountValues' = accountValues
          \/ /\ OneMore(accountValues', accountValues)
             /\ \E r \in Runs :
                  /\ run[r].pc = "sample"
                  /\ mu = r
                  /\ run'[r].pc = "done"
                  /\ run'[r].status = "200"
                  /\ run[r].recorded >= 1
                  /\ Last(accountValues').by = r
                  /\ accountValues = before.accountValues
                  /\ IsSampleValue(Last(accountValues').totalUSDT, r)
       /\ \A r \in Runs :
            (run[r].pc # "done" /\ run'[r].pc = "done" /\ run'[r].status = "200")
            => IF run'[r].recorded >= 1
               THEN OneMore(accountValues', before.accountValues)
               ELSE accountValues' = before.accountValues]_vars

\* a run answered 200 after an accepted order and a sample of 220, the balance
\* of 100 plus holdings worth 120, was appended for it
C22_Witness ==
    \E r \in Runs :
        /\ ProcessedToSuccess(r)
        /\ run[r].recorded >= 1
        /\ OneMore(accountValues, before.accountValues)
        /\ Last(accountValues) = [totalUSDT |-> Rat(220, 1), by |-> r]
        /\ before.accountValues # <<>>

\* the startup fetch makes an attempt in this step
Attempt == phase = "dbready" /\ <<phase, retries, lotSizes>>' # <<phase, retries, lotSizes>>

\* C25: the startup lot-size fetch makes at most 3 attempts: an attempt is
\* made only while fewer than 3 have failed, another attempt follows only an
\* attempt that failed to get a 200 response, the first 200 response ends the
\* fetch, and the third failure in a row ends it with an error that stops the
\* process.
C25_ThreeAttempts ==
    [][/\ retries \in 0..3
       /\ phase = "dbready" => retries < 3
       /\ Attempt =>
            \/ /\ retries' = retries + 1
               /\ phase' = IF retries' = 3 THEN "exited" ELSE "dbready"
               /\ lotSizes' = lotSizes
            \/ /\ phase' \in {"serving", "exited"}
               /\ retries' \in {0, retries}
       /\ phase' = "serving" => retries' = 0]_vars

\* the third attempt in a row has failed and the process has exited
C25_Witness == phase = "exited" /\ retries = 3

\* x lies in (0.0001, 1]
InLotRange(x) == RGt(x, Rat(1, 10000)) /\ ~RGt(x, Rat(1, 1))

\* run r has chosen the lot size of its order
HasLot(r) == run[r].lotSize # Zero

\* C26: once the process serves, every lot size in the cache, and every lot
\* size a run has chosen for its order, is greater than 0.0001 and at most 1.
C26_LotRange ==
    phase = "serving" =>
        /\ \A t \in DOMAIN lotSizes : InLotRange(lotSizes[t])
        /\ \A r \in Runs : HasLot(r) => InLotRange(run[r].lotSize)

\* C27: once the process serves, every configured ticker has a lot size in
\* the cache, and a run for a ticker whose cached lot size is the ticker's
\* static default, the fetch having given none, normalizes with that default.
C27_OwnDefault ==
    phase = "serving" =>
        /\ \A i \in 1..Len(defaultPairs) : defaultPairs[i] \in DOMAIN lotSizes
        /\ \A r \in Runs :
             (HasLot(r) /\ lotSizes[run[r].ticker] = defaultLotSizes[run[r].ticker])
             => run[r].lotSize = defaultLotSizes[run[r].ticker]

\* the answers with which the handler reports a failed query or order
ExchangeFailures ==
    {"Database error", "Failed to get balance", "Failed to check open orders",
     "Failed to get positions", "Failed to get price", "Failed to place order"}

\* on a store that was fresh, run 1 has bought one instrument and stored its
\* holding, and run 2, a buy of another instrument, has ended without a failed
\* query, a failed order or an open order
BoughtOneThenOther ==
    /\ Latest = 2
    /\ run[1].pc = "done" /\ run[2].pc = "done"
    /\ run[1].signal = "buy" /\ run[1].status = "200"
    /\ run[1].recorded = 1 /\ run[1].updated
    /\ before.transactions = <<transactions[1]>>
    /\ RGt(Was(run[1].ticker).position, Zero)
    /\ run[2].signal = "buy"
    /\ run[2].ticker # run[1].ticker
    /\ Was(run[2].ticker).ok /\ Was(run[2].ticker).position = Zero
    /\ run[2].status # "panic"
    /\ run[2].msg \notin ExchangeFailures
    /\ ~run[2].openSeen

\* C28: with both instruments flat, a buy of A and then, once it is done, a
\* buy of another instrument B are both answered 200, and afterwards both
\* rows hold a position above 0.
C28_SplitFunds ==
    BoughtOneThenOther =>
        /\ run[2].status = "200"
        /\ RGt(Row(run[1].ticker).position, Zero)
        /\ RGt(Row(run[2].ticker).position, Zero)

(***************************************************************************)
(* The full cycle of the test suite (Test 4): the four signals buy A,      *)
(* buy B, sell A, sell B with A = BTCUSDT and B = SOLUSDT, each sent two   *)
(* seconds after the answer to the one before, whatever that answer was.   *)
(* The handler's steps are those of Spec, with every answer the exchange   *)
(* may give; only the prices of the account sample are always the quotes.  *)
(* A buy of the cycle always finds its row at position 0, so the sale of   *)
(* an excess has no part in it.                                            *)
(***************************************************************************)
\* the number of signals of the cycle
CycleLen == 4

Cycle ==
    <<[ticker |-> "BTCUSDT", signal |-> "buy", rest |-> ""],
      [ticker |-> "SOLUSDT", signal |-> "buy", rest |-> ""],
      [ticker |-> "BTCUSDT", signal |-> "sell", rest |-> ""],
      [ticker |-> "SOLUSDT", signal |-> "sell", rest |-> ""]>>

CycleRuns == 1 .. CycleLen

CycleInit ==
    /\ phase = "start"
    /\ states = FreshStore.states
    /\ transactions = FreshStore.transactions
    /\ accountValues = FreshStore.accountValues
    /\ lotSizes = NoPositions
    /\ orders = <<>>
    /\ mu = 0
    /\ early = [s \in {"405", "400"} |-> 0]
    /\ inbox = <<>>
    /\ run = [r \in CycleRuns |-> NewRun]
    /\ before = [states |-> states, transactions |-> transactions,
                 accountValues |-> accountValues]
    /\ retries = 0
    /\ pf = NoFetch
    /\ poll = NoPoll
    /\ gp = NoQuery
    /\ calc = NoSizing
    /\ lk = NoLocks

\* sendWebhook of the next signal, two seconds after the answer to the last;
\* the test drops the answer, so nothing of the run that gave it is kept
Send ==
    /\ phase = "serving"
    /\ mu = 0
    /\ inbox = <<>>
    /\ Started < CycleLen
    /\ inbox' = <<Cycle[Started + 1]>>
    /\ run' = [r \in CycleRuns |->
                 IF run[r].pc = "done"
                 THEN [NewRun EXCEPT !.pc = "done", !.status = run[r].status,
                                     !.msg = run[r].msg, !.openSeen = run[r].openSeen]
                 ELSE run[r]]
    /\ UNCHANGED <<phase, states, transactions, accountValues, lotSizes, mu, early,
                   orders, before, retries>>
    /\ UNCHANGED sub

\* a price query answered with the quote
QuotedPrice(ticker) == {Http(200, "0", <<[last |-> Quote(ticker)]>>)}

\* the account sample of the cycle: the exchange quotes every pair held
CycleSample(r) ==
    SampleWith(r, [t \in {defaultPairs[i] : i \in DOMAIN defaultPairs} |-> QuotedPrice(t)])

CycleNext ==
    \/ InitDB
    \/ FetchLotSizes
    \/ Send
    \/ \E r \in CycleRuns :
         \/ Lock(r)
         \/ Dedup(r)
         \/ Balance(r)
         \/ OpenOrders(r)
         \/ Positions(r)
         \/ Price(r)
         \/ Allocate(r)
         \/ Buy(r)
         \/ Sell(r)
         \/ Repositions(r)
         \/ CycleSample(r)

SpecCycle == CycleInit /\ [][CycleNext]_vars

\* the four signals have been answered, the buy of the first was accepted, and
\* no signal ended in a failed query, a failed order, an open order or a panic
CycleDone ==
    /\ Started = CycleLen
    /\ \A r \in CycleRuns :
         /\ run[r].pc = "done"
         /\ run[r].status \in {"200", "500"}
         /\ run[r].msg \notin ExchangeFailures
         /\ ~run[r].openSeen
    /\ transactions # <<>>
    /\ transactions[1].ticker = "BTCUSDT" /\ transactions[1].signal = "buy"

\* C29: after buy A, buy B, sell A, sell B, each answered before the next is
\* sent, the rows of A and B both hold position 0.
C29_FullCycle ==
    CycleDone =>
        /\ Row("BTCUSDT").position = Zero
        /\ Row("SOLUSDT").position = Zero

(***************************************************************************)
(* getCurrentPrices: one goroutine per ticker, a semaphore of 3, a result  *)
(* channel buffered to the number of tickers, a closer goroutine and the   *)
(* caller's range loop.  The call is made by the dashboard while the       *)
(* process serves; the webhook handler takes no part in it.                *)
(***************************************************************************)
\* the longest ticker list of the model
MaxTickers == 4

\* const maxConcurrent = 3
maxConcurrent == 3

\* the ticker lists of the model: the first n pairs, and a list naming a pair twice
TickerLists ==
    {SubSeq(AllPairs, 1, n) : n \in 0 .. MaxTickers} \cup {<<"BTCUSDT", "BTCUSDT">>}

\* the process serves, on a store that was fresh, and no request has come
ServingOn(rows) ==
    /\ phase = "serving"
    /\ states = rows
    /\ transactions = <<>>
    /\ accountValues = <<>>
    /\ lotSizes = fillDefaults(parseLots(NoPositions,
                                         <<Inst("SOL-USDT", "1"), Inst("SUI-USDT", "1")>>,
                                         1), 1)
    /\ orders = <<>>
    /\ mu = 0
    /\ early = [s \in {"405", "400"} |-> 0]
    /\ inbox = <<>>
    /\ run = [r \in Runs |-> NewRun]
    /\ before = [states |-> <<>>, transactions |-> <<>>, accountValues |-> <<>>]
    /\ retries = 0

\* the rows InitDB leaves on a store that was fresh
SeededRows == initStates(FreshStore.states, defaultPairs, 1)

AtServing == ServingOn(SeededRows)

\* the call getCurrentPrices(tickers) at its first statement
StartFetch(tickers) ==
    [NoFetch EXCEPT !.main = "spawn", !.tickers = tickers,
                    !.w = [i \in 1 .. Len(tickers) |->
                             [pc |-> "unborn", price |-> Zero, failed |-> FALSE]]]

PricesInit ==
    /\ AtServing
    /\ \E tickers \in TickerLists : pf = StartFetch(tickers)
    /\ poll = NoPoll
    /\ gp = NoQuery
    /\ calc = NoSizing
    /\ lk = NoLocks

\* a semaphore that admits everyone
semFree_unbounded(n) == TRUE

\* sem <- struct{}{} goes through while the channel holds fewer than 3
semFree(n) == n < maxConcurrent

\* a closer that does not wait
waited_never(n) == TRUE

\* wg.Wait() returns when the counter is 0
waited(n) == n = 0

\* cap(priceChan)
capacity(tickers) == Len(tickers)

\* the workers of the call
Workers == DOMAIN pf.w

\* one round of the for loop: wg.Add(1) and go func(t)
Spawn(i) ==
    /\ i \in Workers
    /\ pf.main = "spawn"
    /\ pf.w[i].pc = "unborn"
    /\ \A j \in Workers : j < i => pf.w[j].pc # "unborn"
    /\ pf' = [pf EXCEPT !.wg = @ + 1, !.w[i].pc = "acquire"]
    /\ UNCHANGED <<core, poll, gp, calc, lk>>

\* go func() { wg.Wait(); close(priceChan) }(), and the caller enters its range loop
StartCloser ==
    /\ pf.main = "spawn"
    /\ \A j \in Workers : pf.w[j].pc # "unborn"
    /\ pf' = [pf EXCEPT !.closer = "wait", !.main = "range"]
    /\ UNCHANGED <<core, poll, gp, calc, lk>>

\* sem <- struct{}{}
Acquire(i) ==
    /\ i \in Workers
    /\ pf.w[i].pc = "acquire"
    /\ semFree(pf.sem)
    /\ pf' = [pf EXCEPT !.sem = @ + 1, !.w[i].pc = "fetch"]
    /\ UNCHANGED <<core, poll, gp, calc, lk>>

\* price := getCurrentPrice(t): the request is answered; failed notes, for the
\* properties, an answer without a price
Fetch(i) ==
    /\ i \in Workers
    /\ pf.w[i].pc = "fetch"
    /\ \E resp \in PriceResponses(pf.tickers[i]) :
         pf' = [pf EXCEPT !.w[i] = [pc |-> "send", price |-> getCurrentPrice(resp),
                                    failed |-> resp.status # 200 \/ resp.data = <<>>]]
    /\ UNCHANGED <<core, poll, gp, calc, lk>>

\* priceChan <- {t, price}: a send on a closed channel panics, a send on a
\* full one waits
SendPrice(i) ==
    /\ i \in Workers
    /\ pf.w[i].pc = "send"
    /\ IF pf.closed
       THEN pf' = [pf EXCEPT !.w[i].pc = "panic"]
       ELSE /\ Len(pf.priceChan) < capacity(pf.tickers)
            /\ pf' = [pf EXCEPT !.priceChan = Append(@, [ticker |-> pf.tickers[i],
                                                         price |-> pf.w[i].price]),
                                !.w[i].pc = "sleep"]
    /\ UNCHANGED <<core, poll, gp, calc, lk>>

\* time.Sleep(333ms) ends and the deferred <-sem runs
Release(i) ==
    /\ i \in Workers
    /\ pf.w[i].pc = "sleep"
    /\ pf' = [pf EXCEPT !.sem = @ - 1, !.w[i].pc = "release"]
    /\ UNCHANGED <<core, poll, gp, calc, lk>>

\* the deferred wg.Done()
Done(i) ==
    /\ i \in Workers
    /\ pf.w[i].pc = "release"
    /\ pf' = [pf EXCEPT !.wg = @ - 1, !.w[i].pc = "exit"]
    /\ UNCHANGED <<core, poll, gp, calc, lk>>

\* the closer: wg.Wait() returns and close(priceChan)
Close ==
    /\ pf.closer = "wait"
    /\ waited(pf.wg)
    /\ pf' = [pf EXCEPT !.closed = TRUE, !.closer = "done"]
    /\ UNCHANGED <<core, poll, gp, calc, lk>>

\* one round of for p := range priceChan
Recv ==
    /\ pf.main = "range"
    /\ pf.priceChan # <<>>
    /\ pf' = [pf EXCEPT !.prices = Put(@, Head(pf.priceChan).ticker, Head(pf.priceChan).price),
                        !.priceChan = Tail(@)]
    /\ UNCHANGED <<core, poll, gp, calc, lk>>

\* the range loop ends on the closed, drained channel: return prices
Return ==
    /\ pf.main = "range"
    /\ pf.priceChan = <<>>
    /\ pf.closed
    /\ pf' = [pf EXCEPT !.main = "returned"]
    /\ UNCHANGED <<core, poll, gp, calc, lk>>

PricesNext ==
    \/ StartCloser
    \/ Close
    \/ Recv
    \/ Return
    \/ \E i \in 1 .. MaxTickers :
         \/ Spawn(i)
         \/ Acquire(i)
         \/ Fetch(i)
         \/ SendPrice(i)
         \/ Release(i)
         \/ Done(i)

SpecPrices == PricesInit /\ [][PricesNext]_vars

\* the price requests in flight: the workers inside getCurrentPrice
InFlight == {i \in Workers : pf.w[i].pc = "fetch"}

\* C23: during a bulk price fetch no more than 3 price requests are in
\* flight at any time, whatever the number of tickers.
C23_AtMostThreeInFlight == Cardinality(InFlight) <= 3

\* three requests are in flight and a fourth worker waits for the semaphore
C23_Witness ==
    /\ Cardinality(InFlight) = 3
    /\ \E i \in Workers : pf.w[i].pc = "acquire"

\* the scheduler runs a goroutine that can take a step
SpecPricesFair == SpecPrices /\ WF_vars(PricesNext)

\* getCurrentPrices has returned and its goroutines have ended
Returned ==
    /\ pf.main = "returned"
    /\ pf.closer = "done"
    /\ \A i \in Workers : pf.w[i].pc = "exit"

\* the price worker j has fetched: 0 when its fetch failed
Fetched(j) == IF pf.w[j].failed THEN Zero ELSE Quoted(pf.tickers[j])

\* the map holds, for every ticker of the list, the price a worker fetched for it
EveryTickerPriced ==
    /\ DOMAIN pf.prices = {pf.tickers[i] : i \in Workers}
    /\ \A i \in Workers :
         \E j \in Workers :
            /\ pf.tickers[j] = pf.tickers[i]
            /\ pf.prices[pf.tickers[i]] = Fetched(j)

\* the channel is closed only when every worker has sent, and no send panics
ClosedAfterSends ==
    /\ pf.closed => \A i \in Workers : pf.w[i].pc \in {"sleep", "release", "exit"}
    /\ \A i \in Workers : pf.w[i].pc # "panic"

\* C24: a bulk price fetch over any ticker list ends: every worker gets past
\* the semaphore and the result channel, the channel is closed only after
\* every worker has sent, and the map returned has an entry for every ticker
\* of the list, 0 where the fetch of the ticker failed and the fetched price
\* elsewhere.
C24_FetchTerminates ==
    /\ []ClosedAfterSends
    /\ [](pf.main = "returned" => EveryTickerPriced)
    /\ <>Returned

\* a fetch of four tickers has returned, with 0 for the one that failed and the
\* quoted prices of the others
C24_Witness ==
    /\ Returned
    /\ Len(pf.tickers) = 4
    /\ pf.w[2].failed
    /\ pf.prices = [t \in {"BTCUSDT", "TRXUSDT", "SUIUSDT", "SOLUSDT"} |->
                      IF t = "TRXUSDT" THEN Zero ELSE Quoted(t)]

(***************************************************************************)
(* The polling variant of the handler (part_003): after client.PlaceOrder  *)
(* it calls checkOrderStatus, which places the order again for its         *)
(* response, reads the order id and polls the order's state every second   *)
(* until it is filled, a query fails or 10 seconds have passed.  The       *)
(* handler records a Transaction when the call returns an id and no error. *)
(* Time is counted in seconds from the creation of the timer and the       *)
(* ticker; the count stops at Horizon, which stands for Horizon or later.  *)
(***************************************************************************)
\* the last second the clock of the model tells apart
Horizon == 12

\* time.After(10 * time.Second)
PollTimeout == 10

\* time.NewTicker(1 * time.Second)
PollInterval == 1

\* an answer to PlaceOrderWithResponse or GetOrderStatus: err is the call's
\* error, json whether the body decodes into an OrderResponse
StatusAnswer(err, json, code, data) ==
    [err |-> err, json |-> json, code |-> code, data |-> data]

OrderState(ordId, state) == [ordId |-> ordId, state |-> state]

NoAnswer == StatusAnswer(FALSE, FALSE, "", <<>>)

PlacementAnswers ==
    {StatusAnswer(TRUE, FALSE, "", <<>>),
     StatusAnswer(FALSE, FALSE, "", <<>>),
     StatusAnswer(FALSE, TRUE, "1", <<OrderState("1", "live")>>),
     StatusAnswer(FALSE, TRUE, "0", <<>>),
     StatusAnswer(FALSE, TRUE, "0", <<OrderState("1", "live")>>),
     StatusAnswer(FALSE, TRUE, "0", <<OrderState("", "live")>>)}

StatusAnswers ==
    {StatusAnswer(TRUE, FALSE, "", <<>>),
     StatusAnswer(FALSE, FALSE, "", <<>>),
     StatusAnswer(FALSE, TRUE, "1", <<OrderState("1", "filled")>>),
     StatusAnswer(FALSE, TRUE, "0", <<>>),
     StatusAnswer(FALSE, TRUE, "0", <<OrderState("1", "live")>>),
     StatusAnswer(FALSE, TRUE, "0", <<OrderState("1", "partially_filled")>>),
     StatusAnswer(FALSE, TRUE, "0", <<OrderState("1", "filled")>>)}

\* the handler has computed its order and is about to call client.PlaceOrder:
\* its alert, the side of the order at hand, whether the buy of the same size
\* follows (the sale of an excess), and the locals it read before
StartPoll(signal, side, more, size, spotBalance) ==
    [pc |-> "order", signal |-> signal, side |-> side, more |-> more,
     size |-> size, price |-> Rat(10, 1), spotBalance |-> spotBalance,
     positions |-> [t \in {"BTCUSDT"} |-> Rat(8, 1)],
     now |-> 0, tick |-> FALSE, orderId |-> "", last |-> NoAnswer, polls |-> 0,
     ret |-> "", recorded |-> FALSE, recs |-> 0, err |-> FALSE, status |-> "none"]

\* the three ways to an order, on BTCUSDT at price 10 with 8 BTC held:
\*   a first buy: every row flat, balance 100, size 100 / 10;
\*   a sell of the stored position: row (buy, 8), size 8;
\*   a buy with an excess: row (sell, 8), one other buy, balance 30, target
\*   (30 + 80) / 2 / 10 = 5.5, size 8 - 5.5, sold and then bought
PollInit ==
    /\ pf = NoFetch
    /\ \/ /\ AtServing
          /\ poll = StartPoll("buy", "buy", FALSE, Rat(10, 1), Rat(100, 1))
       \/ /\ ServingOn(UpdateState(SeededRows, "BTCUSDT", "buy", Rat(8, 1)))
          /\ poll = StartPoll("sell", "sell", FALSE, Rat(8, 1), Rat(100, 1))
       \/ /\ ServingOn(UsedStore.states)
          /\ poll = StartPoll("buy", "sell", TRUE, Rat(5, 2), Rat(30, 1))
    /\ gp = NoQuery
    /\ calc = NoSizing
    /\ lk = NoLocks

\* a poll that takes any reported state for filled
statusOutcome_anyState(a) ==
    IF a.err \/ ~a.json \/ a.code # "0" THEN "error"
    ELSE IF Len(a.data) = 0 THEN "continue"
    ELSE "filled"

\* one round of the poll on the answer of GetOrderStatus
statusOutcome(a) ==
    IF a.err THEN "error"
    ELSE IF ~a.json THEN "error"
    ELSE IF a.code # "0" THEN "error"
    ELSE IF Len(a.data) = 0 THEN "continue"
    ELSE IF a.data[1].state = "filled" THEN "filled"
    ELSE "continue"

\* a timer that never fires
expired_never(now) == FALSE

\* the channel of time.After(10 s) is ready
expired(now) == now >= PollTimeout

\* the handler past one order: with an excess sold or not, the buy of the same
\* size follows (size > 0), else the statements after the branches
nextOrder(q) ==
    IF q.more
    THEN [q EXCEPT !.pc = "order", !.side = "buy", !.more = FALSE, !.now = 0,
                   !.tick = FALSE, !.orderId = "", !.last = NoAnswer, !.polls = 0,
                   !.ret = "", !.recorded = FALSE]
    ELSE [q EXCEPT !.pc = "answer"]

\* err = client.PlaceOrder(...) in the handler; checkOrderStatus is called
\* only when it returned nil
HandlerOrder ==
    /\ poll.pc = "order"
    /\ \E ok \in BOOLEAN :
         poll' = IF ok THEN [poll EXCEPT !.pc = "place", !.err = FALSE]
                 ELSE nextOrder([poll EXCEPT !.err = TRUE])
    /\ UNCHANGED <<core, pf, gp, calc, lk>>

\* checkOrderStatus up to the creation of the timer and the ticker
PlaceWithResponse ==
    /\ poll.pc = "place"
    /\ \E a \in PlacementAnswers :
         poll' = IF a.err \/ ~a.json \/ a.code # "0" \/ Len(a.data) = 0
                 THEN [poll EXCEPT !.pc = "returned", !.ret = "error"]
                 ELSE [poll EXCEPT !.pc = "select", !.orderId = a.data[1].ordId]
    /\ UNCHANGED <<core, pf, gp, calc, lk>>

\* a second passes: the ticker puts a tick in its channel, which holds one
Advance ==
    /\ poll.pc = "select"
    /\ poll' = [poll EXCEPT !.now = IF @ + PollInterval > Horizon THEN Horizon
                                    ELSE @ + PollInterval,
                            !.tick = TRUE]
    /\ UNCHANGED <<core, pf, gp, calc, lk>>

\* case <-tickerPoll.C: one status query
Tick ==
    /\ poll.pc = "select"
    /\ poll.tick
    /\ \E a \in StatusAnswers :
         LET q == [poll EXCEPT !.tick = FALSE, !.last = a,
                               !.polls = IF @ + 1 > Horizon THEN Horizon ELSE @ + 1]
         IN  poll' = IF statusOutcome(a) = "error"
                     THEN [q EXCEPT !.pc = "returned", !.ret = "error"]
                     ELSE IF statusOutcome(a) = "filled"
                     THEN [q EXCEPT !.pc = "returned", !.ret = "id"]
                     ELSE q
    /\ UNCHANGED <<core, pf, gp, calc, lk>>

\* case <-timeout
Timeout ==
    /\ poll.pc = "select"
    /\ expired(poll.now)
    /\ poll' = [poll EXCEPT !.pc = "returned", !.ret = "timeout"]
    /\ UNCHANGED <<core, pf, gp, calc, lk>>

\* back in the handler: err is what checkOrderStatus returned, and
\* if err == nil && orderId != "" the Transaction is recorded
Record ==
    /\ poll.pc = "returned"
    /\ LET q == [poll EXCEPT !.err = poll.ret # "id"]
       IN  IF poll.ret = "id" /\ poll.orderId # ""
           THEN /\ transactions' =
                     RecordTransaction(transactions, "BTCUSDT", poll.side, poll.size,
                                       poll.price, RMul(poll.size, poll.price),
                                       poll.recs + 1)
                /\ poll' = nextOrder([q EXCEPT !.recorded = TRUE, !.recs = @ + 1])
           ELSE /\ UNCHANGED transactions
                /\ poll' = nextOrder(q)
    /\ UNCHANGED <<phase, states, accountValues, lotSizes, mu, early, inbox, run, orders,
                   before, retries, pf, gp, calc, lk>>

\* the statements after the branches: 500 when err is set, else the row takes
\* the alert's signal and the position read before the order
Answer ==
    /\ poll.pc = "answer"
    /\ IF poll.err
       THEN /\ poll' = [poll EXCEPT !.pc = "done", !.status = "500"]
            /\ UNCHANGED states
       ELSE /\ states' = UpdateState(states, "BTCUSDT", poll.signal,
                                     Holding(poll.positions, "BTCUSDT"))
            /\ poll' = [poll EXCEPT !.pc = "value"]
    /\ UNCHANGED <<phase, transactions, accountValues, lotSizes, mu, early, inbox, run,
                   orders, before, retries, pf, gp, calc, lk>>

\* the prices of the pairs held are queried, the account value is recorded
\* from the balance and the positions read before the order, and the answer
\* is 200
RecordValue ==
    /\ poll.pc = "value"
    /\ \E presp \in [DOMAIN poll.positions ->
                       UNION {PriceResponses(t) : t \in DOMAIN poll.positions}] :
         /\ \A t \in DOMAIN poll.positions : presp[t] \in PriceResponses(t)
         /\ \E totalAccountValue \in
                {totalValue(poll.spotBalance, poll.positions,
                            [t \in DOMAIN poll.positions |-> getCurrentPrice(presp[t])],
                            1, conv) : conv \in IntConversions} :
              /\ accountValues' = RecordAccountValue(accountValues, totalAccountValue, 1)
              /\ poll' = [poll EXCEPT !.pc = "done", !.status = "200"]
    /\ UNCHANGED <<phase, states, transactions, lotSizes, mu, early, inbox, run, orders,
                   before, retries, pf, gp, calc, lk>>

PollNext ==
    \/ HandlerOrder
    \/ PlaceWithResponse
    \/ Advance
    \/ Tick
    \/ Timeout
    \/ Record
    \/ Answer
    \/ RecordValue

SpecPoll == PollInit /\ [][PollNext]_vars

\* the scheduler runs the handler when it can take a step, and select takes
\* the timer's case in the end when it stays ready
SpecPollFair == SpecPoll /\ WF_vars(PollNext) /\ WF_vars(Timeout)

\* the answer of a status query reports the order as filled
ReportsFilled(a) ==
    /\ ~a.err /\ a.json /\ a.code = "0"
    /\ a.data # <<>>
    /\ a.data[1].state = "filled"

\* the status query failed or its answer carries a code other than 0
QueryFailed(a) == a.err \/ ~a.json \/ a.code # "0"

\* C30: the confirmation poll always ends, in one of three ways: it returns
\* the order id only when its last status query reported the order filled,
\* it returns an error when a status query failed or carried a code other
\* than 0, and else it returns a timed-out error, not before 10 seconds have
\* passed, with at most one query for every second; the handler records a
\* Transaction only in the first case.
C30_PollOutcomes ==
    /\ [](poll.ret = "id" => ReportsFilled(poll.last))
    /\ [](QueryFailed(poll.last) /\ poll.last # NoAnswer => poll.ret = "error")
    /\ [](poll.ret = "timeout"
            => /\ poll.now >= 10
               /\ ~ReportsFilled(poll.last)
               /\ ~(QueryFailed(poll.last) /\ poll.last # NoAnswer))
    /\ [](poll.polls <= poll.now)
    /\ [](poll.recorded => poll.ret = "id")
    /\ [](Len(transactions) = poll.recs)
    /\ (poll.pc = "select") ~> (poll.pc = "done")

\* ten queries found the order not filled and the poll timed out: nothing
\* was recorded
C30_Witness ==
    /\ poll.pc = "done"
    /\ poll.ret = "timeout"
    /\ poll.polls = 10
    /\ poll.now = 10
    /\ ~poll.recorded
    /\ transactions = <<>>
    /\ poll.status = "500"

\* C32 as stated: the minimum-balance floor applies to buy signals only, so a
\* sell for a row holding (buy, p), p > 0, is never answered with the error
\* of the floor, whatever the balance.
C32_FloorForBuysOnly ==
    \A r \in Runs :
        (SellsOpenPosition(r) /\ run[r].pc = "done")
        => run[r].msg # "Insufficient available balance"

\* C33 as stated: when the exchange does not accept the sell of the excess in
\* the buy branch, that sell is the run's only order and the run is not
\* answered with success.
C33_ExcessSellErrorFinal ==
    \A r \in Runs :
        (/\ r = Latest
         /\ run[r].signal = "buy"
         /\ orders # <<>>
         /\ orders[1].side = "sell"
         /\ Rejected(1))
        => /\ Len(orders) = 1
           /\ run[r].pc = "done" => run[r].status # "200"

\* C34 as stated: a run answered with an error status has recorded no
\* Transaction and written no row of states or account value: the tables are
\* as the run found them.
C34_ErrorLeavesStore ==
    \A r \in Runs :
        (r = Latest /\ run[r].pc = "done" /\ run[r].status = "500")
        => StoreUntouched

\* C36 as stated: every sell order submitted has a size that does not exceed
\* the position the row of its ticker held when the run started.
C36_SellWithinHolding ==
    \A i \in DOMAIN orders :
        (orders[i].side = "sell" /\ orders[i].submitted)
        => ~RGt(orders[i].size, Was(orders[i].ticker).position)

\* C37 as stated: every size passed to Client.PlaceOrder, the sell of the
\* excess included, is a whole number of lots of the step the run uses.
C37_LotMultiple ==
    \A i \in DOMAIN orders :
        WholeLots(orders[i].size, orders[i].lotSize)

\* C40 as stated: an answer with HTTP 200 and an empty data array to an order,
\* a balance query or a positions query comes back to the handler as an error
\* value; no run ends in an out-of-range access.
C40_EmptyDataIsError ==
    \A r \in Runs : run[r].status # "panic"

\* C38: every row of states holds the signal buy or sell; a run whose alert
\* carries any other signal for a configured ticker sends no order, records
\* no Transaction and leaves the three tables as it found them, up to and
\* including its answer.
C38_OnlyBuyOrSell ==
    /\ \A i \in DOMAIN states : states[i].signal \in {"buy", "sell"}
    /\ \A r \in Runs :
         (r = Latest /\ run[r].pc # "idle" /\ run[r].signal \notin {"buy", "sell"})
         => /\ orders = <<>>
            /\ run[r].submitted = 0
            /\ run[r].recorded = 0
            /\ ~run[r].updated
            /\ StoreUntouched

\* an alert with the signal hold passed the duplicate check and the queries
\* and was answered 200, on a store that holds an open buy
C38_Witness ==
    \E r \in Runs :
        /\ r = Latest
        /\ run[r].signal = "hold"
        /\ run[r].pc = "done"
        /\ run[r].status = "200"
        /\ run[r].queried
        /\ ~run[r].dedup
        /\ \E i \in DOMAIN states : states[i].signal = "buy"

(***************************************************************************)
(* Client.GetPositions over the client's own list of seven pairs: one call *)
(* followed detail by detail.  to is history: for every detail of the      *)
(* answer, the tickers the detail was attributed to.                       *)
(***************************************************************************)
\* the longest details list of the model
MaxDetails == 2

\* the balance entries the exchange may list: currencies of the account
\* (BTC, TRX, the quote currency, and the one-letter codes T and S) with an
\* availEq that is empty, a number or not a number
QueryDetails ==
    {PosDetail(ccy, eq, "16") : ccy \in {"BTC", "TRX", "T", "S", "USDT"},
                                eq \in {"", "8", "abc"}}

QueryAnswers ==
    {Http(500, "0", <<>>), Http(200, "1", <<>>), Http(200, "0", <<>>)}
    \cup {Http(200, "0", <<[details |-> d]>>) :
            d \in UNION {[1 .. n -> QueryDetails] : n \in 0 .. MaxDetails}}

\* the call at its first statement, the request answered with resp
StartQuery(resp) ==
    [pc |-> "request", resp |-> resp, i |-> 1, positions |-> NoPositions, to |-> <<>>,
     ret |-> "none"]

PositionsInit ==
    /\ AtServing
    /\ pf = NoFetch
    /\ poll = NoPoll
    /\ \E resp \in QueryAnswers : gp = StartQuery(resp)
    /\ calc = NoSizing
    /\ lk = NoLocks

\* makeRequest, the test of the envelope code, and balance.Data[0]
QueryPositions ==
    /\ gp.pc = "request"
    /\ gp' = IF ~makeRequest(gp.resp) \/ gp.resp.code # "0"
             THEN [gp EXCEPT !.pc = "returned", !.ret = "err"]
             ELSE IF Len(gp.resp.data) = 0
             THEN [gp EXCEPT !.pc = "returned", !.ret = "panic"]
             ELSE [gp EXCEPT !.pc = "details"]
    /\ UNCHANGED <<core, pf, poll, calc, lk>>

\* one round of the loop over the details: the inner loop over the pairs
AttributeDetail ==
    /\ gp.pc = "details"
    /\ gp.i <= Len(gp.resp.data[1].details)
    /\ LET detail == gp.resp.data[1].details[gp.i]
       IN  gp' = [gp EXCEPT
                    !.positions = attribute(gp.positions, detail, AllPairs, 1),
                    !.to = Append(@, DOMAIN attribute(NoPositions, detail, AllPairs, 1)),
                    !.i = @ + 1]
    /\ UNCHANGED <<core, pf, poll, calc, lk>>

\* return positions, nil
ReturnPositions ==
    /\ gp.pc = "details"
    /\ gp.i > Len(gp.resp.data[1].details)
    /\ gp' = [gp EXCEPT !.pc = "returned", !.ret = "ok"]
    /\ UNCHANGED <<core, pf, poll, calc, lk>>

PositionsNext ==
    \/ QueryPositions
    \/ AttributeDetail
    \/ ReturnPositions

SpecPositions == PositionsInit /\ [][PositionsNext]_vars

\* the amount of a detail is a number
Parses(detail) ==
    ParseFloat(IF detail.availEq = "" THEN detail.availBal ELSE detail.availEq).ok

\* C31 as stated: a balance entry with currency c whose amount is a number is
\* attributed to the pair T exactly when T is c followed by USDT; no entry is
\* attributed to two pairs, and the quote currency is attributed to none.
C31_AttributedByConcatenation ==
    gp.pc \in {"details", "returned"}
    => \A i \in DOMAIN gp.to :
         LET detail == gp.resp.data[1].details[i]
         IN  /\ Parses(detail)
                => \A j \in DOMAIN AllPairs :
                     AllPairs[j] \in gp.to[i] <=> AllPairs[j] = detail.ccy \o "USDT"
             /\ Cardinality(gp.to[i]) <= 1
             /\ detail.ccy = "USDT" => gp.to[i] = {}

(***************************************************************************)
(* The size checks of the buy and the sell branch on their own: one pass   *)
(* from the size the branch starts with to the call of PlaceOrder, for     *)
(* prices and lot steps beyond those the exchange of the main model        *)
(* quotes.  sent is history: the sizes passed to PlaceOrder.               *)
(***************************************************************************)
\* the sizes a branch may start with: 0 (a buy below its target), and holdings
\* as the positions query reads them; 0.3, 4.3 and 10.2 are sizes whose quotient
\* by 0.1 is rounded below a whole number, and 4.35 is cut to 43 lots, a
\* multiple the check of the handler does not take for one
SizingSizes ==
    {ParseFloat(t).v : t \in {"0", "5e-2", "1.25", "10", "0.3", "4.3", "10.2", "4.35", "Inf"}}

\* the prices of the target instrument
SizingPrices == {ParseFloat(t).v : t \in {"1", "2.5", "0x1p2", "10", "1E2", "200"}}

\* the lot steps the handler may use: the fallback 0.1, a cached step of 1, and
\* a cached step that is not a number, which the validation of fetchLotSizes
\* and the handler's range check both let through
SizingLots == {FallbackLot, MaxLot, ParseFloat("NaN").v}

\* the balances read, none of them below the floor
SizingBalances == {ParseFloat(t).v : t \in {"30", "100", "Inf", "NaN"}}

StartSizing(side, size, price, lotSize, spotBalance) ==
    [pc |-> "branch", side |-> side, size |-> size, price |-> price, lotSize |-> lotSize,
     spotBalance |-> spotBalance, sent |-> <<>>, msg |-> ""]

SizingInit ==
    /\ AtServing
    /\ pf = NoFetch
    /\ poll = NoPoll
    /\ gp = NoQuery
    /\ \E side \in {"buy", "sell"}, size \in SizingSizes, price \in SizingPrices,
          lotSize \in SizingLots, spotBalance \in SizingBalances :
         calc = StartSizing(side, size, price, lotSize, spotBalance)
    /\ lk = NoLocks

\* the buy branch, from the minimum order value to client.PlaceOrder
BuyChecks ==
    /\ calc.pc = "branch"
    /\ calc.side = "buy"
    /\ \E b \in buyOrder(calc.size, calc.price, calc.lotSize, calc.spotBalance) :
           calc' = [calc EXCEPT
                      !.pc = "done",
                      !.sent = IF b.kind = "order" THEN <<b.size>> ELSE <<>>,
                      !.msg = IF b.kind = "funds" THEN "Insufficient funds"
                              ELSE IF b.kind = "invalid" THEN "Invalid order size"
                              ELSE ""]
    /\ UNCHANGED <<core, pf, poll, gp, lk>>

\* the sell branch for a stored position above 0
SellChecks ==
    /\ calc.pc = "branch"
    /\ calc.side = "sell"
    /\ RGt(calc.size, Zero)
    /\ \E s \in sellOrder(calc.size, calc.price, calc.lotSize) :
           calc' = [calc EXCEPT
                      !.pc = "done",
                      !.sent = IF s.kind = "order" THEN <<s.size>> ELSE <<>>,
                      !.msg = IF s.kind = "invalid" THEN "Invalid order size" ELSE ""]
    /\ UNCHANGED <<core, pf, poll, gp, lk>>

\* the sell branch for a stored position of 0: nothing is done
SellNothing ==
    /\ calc.pc = "branch"
    /\ calc.side = "sell"
    /\ ~RGt(calc.size, Zero)
    /\ calc' = [calc EXCEPT !.pc = "done"]
    /\ UNCHANGED <<core, pf, poll, gp, lk>>

SizingNext ==
    \/ BuyChecks
    \/ SellChecks
    \/ SellNothing

SpecSizing == SizingInit /\ [][SizingNext]_vars

\* C35 as stated: no size passed to PlaceOrder is 0, on the buy path and on
\* the sell path; a size the rounding brings down to 0 is not submitted.
C35_NoZeroOrder ==
    calc.pc = "done" => \A i \in DOMAIN calc.sent : calc.sent[i] # Zero

\* the buy path alone: a buy whose size rounds down to 0 is not submitted
C35_NoZeroBuy ==
    (calc.pc = "done" /\ calc.side = "buy")
    => \A i \in DOMAIN calc.sent : calc.sent[i] # Zero

(***************************************************************************)
(* The two mutexes.  main's mu is taken by the webhook handler and by the  *)
(* state handler for the whole request (mu.Lock(); defer mu.Unlock()), and *)
(* not by the handler of /run-tests; the store's own mu is taken by every  *)
(* function of package db for the length of the call.  A handler is        *)
(* followed through its calls of the store and of the exchange to its      *)
(* return; what the calls compute is left to the main model, here every    *)
(* outcome of a call is possible.  panicked is history: a handler has left *)
(* on a panic.                                                             *)
(***************************************************************************)
\* the number of requests in the model of the mutexes
MaxHandlers == 3

Handlers == 1 .. MaxHandlers

\* the number of requests for /run-tests served at a time
MaxTestRuns == 1

\* the functions of package db, each under the store's mutex
DbCalls ==
    {"GetState", "RecordTransaction", "UpdateState", "RecordAccountValue",
     "GetAllStates", "GetAccountValues", "GetTransactions"}

To(pc, n) == [pc |-> pc, how |-> "", n |-> n]

Out(how, n) == [pc |-> "exit", how |-> how, n |-> n]

\* where a handler goes after the call it is at.  In a webhook request n
\* counts the rounds of the loop that counts the rows with signal buy, a
\* db.GetState for each pair, and after it the calls of PlaceOrder; in the
\* state handler the rounds of its loop over the pairs; in the handler of
\* /run-tests the calls of getState, the first of each of RunTests' four
\* tests and up to six more
after(kind, pc, n) ==
    IF kind = "webhook"
    THEN IF pc = "GetState"
         THEN IF n = 0 THEN {Out("error", n), Out("dedup", n), To("queries", n)}
              ELSE IF n < Len(defaultPairs) THEN {To("GetState", n + 1)}
              ELSE {To("order", 0)}
         ELSE IF pc = "queries"
         THEN {Out("error", n), Out("panic", n), To("GetState", 1)}
         ELSE IF pc = "order"
         THEN {Out("error", n), Out("panic", n), To("RecordTransaction", n + 1)}
              \cup (IF n = 0 THEN {Out("nothing", n), To("order", n + 1)}
                    ELSE {To("requery", n)})
         ELSE IF pc = "RecordTransaction"
         THEN IF n = 1 THEN {To("order", n), To("requery", n)} ELSE {To("requery", n)}
         ELSE IF pc = "requery"
         THEN {To("UpdateState", n), To("balance", n), Out("panic", n)}
         ELSE IF pc = "UpdateState" THEN {To("balance", n)}
         ELSE IF pc = "balance" THEN {To("RecordAccountValue", n), Out("panic", n)}
         ELSE {Out("success", n)}
    ELSE IF kind = "tests"
    THEN IF pc = "GetState" THEN {To("run", n + 1)}
         ELSE {Out("panic", n)}
              \cup (IF n < 10 THEN {To("GetState", n)} ELSE {})
              \cup (IF n >= 4 THEN {Out("success", n)} ELSE {})
    ELSE IF pc = "GetAllStates" THEN {Out("error", n), To("queries", n)}
         ELSE IF pc = "queries"
         THEN {Out("error", n), Out("panic", n), To("GetAccountValues", n)}
         ELSE IF pc = "GetAccountValues" THEN {To("GetTransactions", 1)}
         ELSE IF n < Len(AllPairs) THEN {To("GetTransactions", n + 1)}
         ELSE {Out("success", n)}

\* the first call of a handler: of the webhook and the state handler once
\* they hold mu, of RunTests at its start
first(kind) == IF kind = "state" THEN "GetAllStates" ELSE "GetState"

NoHandler == [kind |-> "", pc |-> "idle", inside |-> FALSE, how |-> "", n |-> 0]

LocksInit ==
    /\ AtServing
    /\ pf = NoFetch
    /\ poll = NoPoll
    /\ gp = NoQuery
    /\ calc = NoSizing
    /\ lk = [NoLocks EXCEPT !.h = [p \in Handlers |-> NoHandler]]

\* a handler that unlocks before each of its return statements
unlocks_onReturn(how) == how # "panic"

\* defer mu.Unlock(): the mutex is released however the handler leaves
unlocks(how) == TRUE

\* a request for one of the three routes passes its first checks: one for
\* /webhook or /state reaches mu.Lock(), one for /run-tests enters RunTests
\* without it
Arrive(p) ==
    /\ lk.h[p].pc = "idle"
    /\ \E kind \in {"webhook", "state", "tests"} :
         /\ kind = "tests"
              => Cardinality({q \in Handlers : lk.h[q].kind = "tests"}) < MaxTestRuns
         /\ lk' = [lk EXCEPT !.h[p].kind = kind,
                             !.h[p].pc = IF kind = "tests" THEN first(kind) ELSE "lock"]
    /\ UNCHANGED <<core, pf, poll, gp, calc>>

\* mu.Lock() returns
LockMu(p) ==
    /\ lk.h[p].pc = "lock"
    /\ canLock(lk.mu)
    /\ lk' = [lk EXCEPT !.mu = p, !.h[p].pc = first(lk.h[p].kind)]
    /\ UNCHANGED <<core, pf, poll, gp, calc>>

\* the handler calls a function of package db, whose mu.Lock() returns
DbEnter(p) ==
    /\ lk.h[p].pc \in DbCalls
    /\ ~lk.h[p].inside
    /\ canLock(lk.dbmu)
    /\ lk' = [lk EXCEPT !.dbmu = p, !.h[p].inside = TRUE]
    /\ UNCHANGED <<core, pf, poll, gp, calc>>

\* the function of package db returns and its deferred mu.Unlock() runs
DbLeave(p) ==
    /\ lk.h[p].pc \in DbCalls
    /\ lk.h[p].inside
    /\ \E t \in after(lk.h[p].kind, lk.h[p].pc, lk.h[p].n) :
         lk' = [lk EXCEPT !.dbmu = 0,
                          !.h[p] = [@ EXCEPT !.inside = FALSE, !.pc = t.pc, !.how = t.how,
                                             !.n = t.n]]
    /\ UNCHANGED <<core, pf, poll, gp, calc>>

\* a stretch of the handler without a call of package db: the calls of the
\* exchange client and the statements around them, in RunTests the alerts it
\* posts as well
Call(p) ==
    /\ lk.h[p].pc \in {"queries", "order", "requery", "balance", "run"}
    /\ \E t \in after(lk.h[p].kind, lk.h[p].pc, lk.h[p].n) :
         lk' = [lk EXCEPT !.h[p] = [@ EXCEPT !.pc = t.pc, !.how = t.how, !.n = t.n]]
    /\ UNCHANGED <<core, pf, poll, gp, calc>>

\* the handler returns, or panics and is recovered by the server, and its
\* deferred call, if it has one, runs; its locals die
Unwind(p) ==
    /\ lk.h[p].pc = "exit"
    /\ lk' = [lk EXCEPT !.mu = IF lk.h[p].kind # "tests" /\ unlocks(lk.h[p].how)
                               THEN 0 ELSE @,
                        !.h[p] = [NoHandler EXCEPT !.pc = "done"],
                        !.panicked = @ \/ lk.h[p].how = "panic"]
    /\ UNCHANGED <<core, pf, poll, gp, calc>>

LocksNext ==
    \E p \in Handlers :
        \/ Arrive(p)
        \/ LockMu(p)
        \/ DbEnter(p)
        \/ DbLeave(p)
        \/ Call(p)
        \/ Unwind(p)

SpecLocks == LocksInit /\ [][LocksNext]_vars

\* every call of the exchange and of the store returns, and the scheduler
\* runs a goroutine that can take a step
SpecLocksFair == SpecLocks /\ WF_vars(LocksNext)

\* handler p is between mu.Lock() and its return
InRequest(p) == lk.h[p].kind # "tests" /\ lk.h[p].pc \notin {"idle", "lock", "done"}

\* main's mutex is held exactly by the handler that is inside its request, and
\* is free once that handler has left, whatever the way it left
MuDiscipline ==
    \A p \in Handlers :
        /\ lk.mu = p <=> InRequest(p)
        /\ lk.h[p].pc = "done" => lk.mu # p

\* the store's mutex is held only inside a call of package db, made by the
\* holder of main's mutex or by RunTests; a handler waiting in mu.Lock()
\* holds nothing
DbDiscipline ==
    \A p \in Handlers :
        /\ lk.dbmu = p <=> lk.h[p].inside
        /\ lk.h[p].inside => lk.h[p].pc \in DbCalls
        /\ lk.h[p].inside => (lk.mu = p \/ lk.h[p].kind = "tests")
        /\ lk.h[p].pc = "lock" => lk.dbmu # p

\* C39: a handler holds main's mutex from mu.Lock() to its return and
\* releases it on every way out (duplicate, error answer, panic, success);
\* the store's mutex is never held by a handler waiting for main's mutex;
\* and, every call returning, every request that waits in mu.Lock() gets the
\* mutex and runs to its end.
C39_LocksReleased ==
    /\ [](MuDiscipline /\ DbDiscipline)
    /\ \A p \in Handlers : (lk.h[p].pc = "lock") ~> (lk.h[p].pc = "done")

\* a handler has left on a panic, another holds main's mutex and is inside a
\* call of the store, and a third waits in mu.Lock()
C39_Witness ==
    \E p, q, w \in Handlers :
        /\ lk.h[p].pc = "done"
        /\ lk.panicked
        /\ lk.mu = q
        /\ lk.h[q].kind = "webhook"
        /\ lk.h[q].inside
        /\ lk.dbmu = q
        /\ lk.h[w].pc = "lock"

====
